---- MODULE Spec2Model ----
(***************************************************************************)
(* A model of the SSH gateway of packages/ssh: the middleware pipeline     *)
(* (compose), the per-connection authentication handler of SSHServer, and  *)
(* the SSHSession bridge between the SSH channel and the renderer.         *)
(*                                                                         *)
(* The specifications share the variables:                                 *)
(*   SpecCompose  dispatches of one composed chain with a recording        *)
(*                terminal continuation (the harness of middleware.test)   *)
(*   SpecAuth     SSHServer.handleConnection / handleAuth on connections   *)
(*   SpecSession  one SSHSession: flush handler, channel data, teardown    *)
(*   SpecLifecycle  one SSHSession: resize and teardown                    *)
(*   SpecShell    SSHServer.handleSession: pty, shell, window-change and   *)
(*                exec requests on one SSH session                         *)
(*   SpecBuiltin  logging, publicKey and devMode dispatched on one context *)
(*   SpecScratch  ctx.state over the dispatches the server starts          *)
(*   SpecIsolation  two connections with their sessions                    *)
(*   SpecServer   SSHServer.listen and close with the transport's binding  *)
(*   SpecLogged   logging in front of the chain of handleAuth              *)
(*   SpecBackpressure  the flush handler with a renderer that waits for    *)
(*                done before it flushes again                             *)
(* Each leaves the variables of the other parts at their initial value.    *)
(***************************************************************************)
EXTENDS Integers, Sequences, FiniteSets, TLC

VARIABLES
    chain,      \* the configured middleware list (read-only after construction)
    disp,       \* the dispatches of the composed chain started so far
    conns,      \* per connection: the closure state of handleConnection
    errors,     \* the 'error' events the server has emitted
    sess,       \* the SSHSession and its channel and renderer
    hs,         \* the closure state of handleSession for one SSH session
    running,    \* the dispatch whose synchronous code is executing, or 0
    srv         \* the SSHServer: its transport server, flag, events and calls

vars == <<chain, disp, conns, errors, sess, hs, running, srv>>

(***************************************************************************)
(* Bounds of the model.                                                    *)
(***************************************************************************)
MaxChain == 3
NumDispatch == 2
MaxAuthChain == 2
MaxAttempts == 2
NumConns == 1
MaxSessions == 1
MaxFlush == 2
MaxTeardownCalls == 2
MaxData == 1
MaxResize == 2
MaxRequests == 3
MaxCloseEvents == 2
MaxServerCalls == 3

(***************************************************************************)
(* Middleware behaviours.  A middleware is a short program over the        *)
(* operations a middleware can perform on its context and continuation;    *)
(* every next() is awaited and no middleware catches what next() throws.   *)
(* "await" is asynchronous work of the middleware's own.                   *)
(*                                                                         *)
(* The runtime is single-threaded: a callback runs to completion, and      *)
(* other callbacks run only while a dispatch is suspended at an await.     *)
(***************************************************************************)
NextTwiceError == "next() called multiple times"
BoomError == "boom"
NoError == "none"

\* publicKey(options) instances, by the authorizedKeys they were given.
PublicKeyKinds == {"publicKey:none", "publicKey:one", "publicKey:mixed"}

Prog(kind) ==
    CASE kind = "wrap"    -> <<"before", "next", "after">>
      [] kind = "short"   -> <<"before">>
      [] kind = "slow"    -> <<"await", "before", "next", "after">>
      [] kind = "twice"   -> <<"next", "next">>
      [] kind = "throw"   -> <<"throw">>
      [] kind = "devMode" -> <<"accept", "next">>
      [] kind = "reject"  -> <<"reject", "next">>
      [] kind = "logging" -> <<"track", "next", "report">>
      [] kind = "put"     -> <<"put", "next">>
      [] kind = "get"     -> <<"get", "next">>
      [] kind \in PublicKeyKinds -> <<"decide", "next">>

ComposeKinds == {"wrap", "slow", "short", "twice"}
AuthKinds == {"slow", "short", "twice", "throw", "devMode", "reject"}

Range(s) == {s[k] : k \in DOMAIN s}

Chains(kinds, n) == UNION {[1..k -> kinds] : k \in 0..n}

(***************************************************************************)
(* One dispatch of the composed chain: compose's closure (index), the      *)
(* activations that are awaiting (stack, innermost last) and what the      *)
(* dispatch has been observed to do.                                       *)
(***************************************************************************)
Frame(i) == [i |-> i, pc |-> 1, nexts |-> 0]

\* An index kept by compose itself instead of by each invocation: a
\* dispatch starts from where the previous one left it.
SharedIndex == IF disp = <<>> THEN -1 ELSE disp[Len(disp)].index

\* let index = -1: every invocation of the composed middleware has its own.
FreshIndex == -1

\* ctx.clientKey when the attempt is not a publickey attempt.
NoKey == [algo |-> "undefined", data |-> <<>>]

\* The context of a dispatch and what is recorded about it.  The context
\* the server builds has phase "auth" with accept and reject callbacks, or
\* phase "session" without them; the context of the test harness has
\* phase "auth" and no callbacks unless the test overrides them.
\* acceptWraps and rejectWraps are the logging activations whose wrapper
\* is installed on ctx.accept and ctx.reject, authResult is the closure
\* variable of each logging activation, reports are the onAuthAttempt
\* calls made so far.  state is the scratch map of the context (-1 for a
\* key that is not set) and seen what middlewares have read from it.
NewDispatch(term, c, user, method) ==
    [status |-> "running", term |-> term, index |-> FreshIndex, stack |-> <<>>,
     order |-> <<>>, finals |-> 0, err |-> NoError, faults |-> 0,
     c |-> c, username |-> user, method |-> method,
     accepted |-> FALSE, rejected |-> FALSE, calls |-> <<>>, termAt |-> -1,
     caught |-> FALSE,
     phase |-> IF term = "session" THEN "session" ELSE "auth",
     hasAccept |-> term = "auth", hasReject |-> term = "auth",
     clientKey |-> NoKey,
     acceptWraps |-> {}, rejectWraps |-> {},
     authResult |-> [k \in DOMAIN chain |-> "null"],
     reports |-> <<>>,
     state |-> [mw1 |-> -1, mw2 |-> -1], seen |-> <<>>,
     connects |-> <<>>, closeListeners |-> 0, closeEmits |-> 0,
     disconnects |-> <<>>]

Top(r) == r.stack[Len(r.stack)]

Pop(r) == [r EXCEPT !.stack = SubSeq(@, 1, Len(@) - 1)]

\* The operation the innermost activation is about to perform.
OpAt(r) ==
    LET f == Top(r)
        p == Prog(chain[f.i + 1])
    IN IF f.pc > Len(p) THEN "return" ELSE p[f.pc]

Advance(r) == [r EXCEPT !.stack[Len(r.stack)].pc = @ + 1]

Log(r, tag, i) == [r EXCEPT !.order = Append(@, <<tag, i>>)]

\* A throw inside an activation: every awaiting caller rethrows, so the
\* promise of the whole dispatch rejects with the error.
Fail(r, e) == [r EXCEPT !.status = "rejected", !.err = e, !.stack = <<>>]

\* The promise of dispatch(0) resolves once no activation is left.
Settle(r) ==
    IF r.status = "running" /\ r.stack = <<>>
    THEN [r EXCEPT !.status = "resolved"]
    ELSE r

\* One invocation of a primitive of the transport's AuthContext, with what
\* handleAuth and handleConnection had recorded when it was invoked.
NativeCall(op, methods, by, r, user) ==
    [op |-> op, methods |-> methods, by |-> by, flag |-> r.accepted, user |-> user]

NoUser == [username |-> "null", publicKey |-> "null"]

\* A terminal continuation that only looks at the accepted flag.
AuthDefaultIgnoresRejected(r) ==
    IF ~r.accepted
    THEN [r EXCEPT !.calls = Append(@, NativeCall("reject", "publickey", "terminal", r, NoUser))]
    ELSE r

\* handleAuth's terminal continuation: the default reject.
AuthDefault(r) ==
    IF ~r.accepted /\ ~r.rejected
    THEN [r EXCEPT !.calls = Append(@, NativeCall("reject", "publickey", "terminal", r, NoUser))]
    ELSE r

\* The terminal continuation the caller of the composed chain passed in.
Terminal(r) ==
    CASE r.term = "final" ->
            [Log(r, "final", Len(chain)) EXCEPT !.finals = @ + 1]
      [] r.term = "auth" ->
            [AuthDefault(r) EXCEPT !.finals = @ + 1, !.termAt = Len(r.calls)]
      [] OTHER -> [r EXCEPT !.finals = @ + 1]

\* The guard of compose's dispatch(i).
NextGuardNone(i, index) == FALSE

NextGuard(i, index) == i <= index

\* dispatch(i) that returns at the end of the list without calling next.
EnterNoTerminal(r, i) ==
    IF NextGuard(i, r.index)
    THEN [Fail(r, NextTwiceError) EXCEPT !.faults = @ + 1]
    ELSE LET r1 == [r EXCEPT !.index = i]
         IN IF i >= Len(chain)
            THEN r1
            ELSE [r1 EXCEPT !.stack = Append(@, Frame(i))]

\* compose's dispatch(i), up to the point where it awaits.
Enter(r, i) ==
    IF NextGuard(i, r.index)
    THEN [Fail(r, NextTwiceError) EXCEPT !.faults = @ + 1]
    ELSE LET r1 == [r EXCEPT !.index = i]
         IN IF i >= Len(chain)
            THEN Terminal(r1)
            ELSE [r1 EXCEPT !.stack = Append(@, Frame(i))]

\* Dispatch d can take its next step: it is the one executing, or nothing
\* is executing and its innermost activation is resumed.
Running(d) ==
    /\ d \in DOMAIN disp
    /\ disp[d].status = "running"
    /\ disp[d].stack # <<>>
    /\ running \in {0, d}

\* After a step of dispatch d: it goes on synchronously if it is still
\* running and was not suspended.
Continue(d, r, suspended) ==
    IF r.status = "running" /\ r.stack # <<>> /\ ~suspended THEN d ELSE 0

Idle == running = 0

(***************************************************************************)
(* Steps of a dispatch.                                                    *)
(***************************************************************************)
\* A middleware runs its code before or after next().
MwCode(d) ==
    /\ Running(d)
    /\ OpAt(disp[d]) \in {"before", "after"}
    /\ disp' = [disp EXCEPT ![d] = Advance(Log(@, OpAt(@), Top(@).i))]
    /\ running' = d
    /\ UNCHANGED <<srv, hs, chain, conns, errors, sess>>

\* A middleware awaits work of its own: the dispatch is suspended.
MwAwait(d) ==
    /\ Running(d)
    /\ OpAt(disp[d]) = "await"
    /\ disp' = [disp EXCEPT ![d] = Advance(@)]
    /\ running' = 0
    /\ UNCHANGED <<srv, hs, chain, conns, errors, sess>>

\* A middleware calls next(): dispatch(i + 1).  The callee runs on
\* synchronously; after the terminal continuation dispatch awaits.
MwNext(d) ==
    /\ Running(d)
    /\ OpAt(disp[d]) = "next"
    /\ LET r == disp[d]
           f == Top(r)
           r1 == [r EXCEPT !.stack[Len(r.stack)].pc = @ + 1,
                           !.stack[Len(r.stack)].nexts = @ + 1]
           r2 == Enter(r1, f.i + 1)
       IN /\ disp' = [disp EXCEPT ![d] = r2]
          /\ running' = Continue(d, r2, Len(r2.stack) = Len(r.stack))
    /\ UNCHANGED <<srv, hs, chain, conns, errors, sess>>

\* A dispatch that goes on to the next middleware when one returns
\* without having called next.
MwReturnAutoNext(d) ==
    /\ Running(d)
    /\ OpAt(disp[d]) = "return"
    /\ disp' = [disp EXCEPT ![d] =
                   IF Top(@).nexts = 0
                   THEN Settle(Enter(Pop(@), Top(@).i + 1))
                   ELSE Settle(Pop(@))]
    /\ running' = 0
    /\ UNCHANGED <<srv, hs, chain, conns, errors, sess>>

\* A middleware returns: its caller's await of next() completes, and the
\* caller is resumed later.
MwReturn(d) ==
    /\ Running(d)
    /\ OpAt(disp[d]) = "return"
    /\ disp' = [disp EXCEPT ![d] = Settle(Pop(@))]
    /\ running' = 0
    /\ UNCHANGED <<srv, hs, chain, conns, errors, sess>>

\* A middleware throws.
MwThrow(d) ==
    /\ Running(d)
    /\ OpAt(disp[d]) = "throw"
    /\ disp' = [disp EXCEPT ![d] = Fail(@, BoomError)]
    /\ running' = 0
    /\ UNCHANGED <<srv, hs, chain, conns, errors, sess>>

\* The harness calls composed(ctx, final).
StartDispatch ==
    /\ Idle
    /\ Len(disp) < NumDispatch
    /\ LET r == Settle(Enter(NewDispatch("final", 0, "testuser", "none"), 0))
       IN /\ disp' = Append(disp, r)
          /\ running' = Continue(Len(disp) + 1, r, FALSE)
    /\ UNCHANGED <<srv, hs, chain, conns, errors, sess>>

InitConns == <<>>
InitSrv == <<>>
InitSess == <<>>
InitHs == <<>>

InitCompose ==
    /\ chain \in Chains(ComposeKinds, MaxChain)
    /\ disp = <<>>
    /\ conns = InitConns
    /\ errors = {}
    /\ sess = InitSess
    /\ hs = InitHs
    /\ running = 0
    /\ srv = InitSrv

NextCompose ==
    \/ StartDispatch
    \/ \E d \in 1..NumDispatch : MwCode(d) \/ MwAwait(d) \/ MwNext(d) \/ MwReturn(d)

SpecCompose == InitCompose /\ [][NextCompose]_vars

(***************************************************************************)
(* SSHServer.handleConnection and handleAuth.                              *)
(*                                                                         *)
(* The transport (the ssh2 library) is an external collaborator.  It is    *)
(* modelled by its contract: it raises 'authentication' for one attempt   *)
(* at a time on a connection that is not authenticated yet, the first     *)
(* accept or reject invoked on an attempt decides it and later ones are   *)
(* ignored, and 'ready' is raised once, by the accept that decides, from  *)
(* inside accept or later.  'session' may be raised at any time: whether  *)
(* it is handled is up to the listeners the code has registered.          *)
(***************************************************************************)
KeyAlgo == "ssh-ed25519"

\* The attempts a client makes: a username with an authentication method.
Attempts ==
    {[username |-> "alice", method |-> "password"],
     [username |-> "bob", method |-> "publickey"]}
ReadyModes == {"later", "ready", "ready+session"}

\* A handleConnection that registers its 'session' listener at once
\* instead of in the 'ready' handler.
NewConnectionEarly ==
    [user |-> NoUser, listeners |-> 1, authed |-> FALSE, pendingReady |-> FALSE,
     sessions |-> <<>>]

\* handleConnection's closure for a connection the transport handed over:
\* authenticatedUser, the 'session' listeners registered so far, and what
\* the transport and handleSession have seen.
NewConnection ==
    [user |-> NoUser, listeners |-> 0, authed |-> FALSE, pendingReady |-> FALSE,
     sessions |-> <<>>]

\* The UserInfo handleConnection and handleAuth build from the AuthContext.
UserInfo(r) ==
    [username |-> r.username,
     publicKey |-> IF r.method = "publickey" THEN KeyAlgo ELSE "undefined"]

AppendN(s, x, n) == s \o [k \in 1..n |-> x]

\* The 'session' listener of the 'ready' handler: handleSession is called
\* with authenticatedUser as it is now.
OnSession(cn, sync, d) ==
    [cn EXCEPT !.sessions =
        AppendN(@, [user |-> cn.user, sync |-> sync, att |-> d], cn.listeners)]

\* The 'ready' handler registers the 'session' listener.
OnReady(cn) == [cn EXCEPT !.listeners = @ + 1, !.pendingReady = FALSE]

\* The transport's accept primitive, invoked on the attempt of dispatch
\* st.r of connection st.cn.
OriginalAccept(st, mode, d) ==
    LET decides == st.r.calls = <<>> /\ ~st.cn.authed
        r1 == [st.r EXCEPT !.calls = Append(@, NativeCall("accept", "none", "mw", st.r, st.cn.user))]
        cn1 == [st.cn EXCEPT !.authed = TRUE]
    IN IF ~decides THEN [r |-> r1, cn |-> st.cn]
       ELSE CASE mode = "later" -> [r |-> r1, cn |-> [cn1 EXCEPT !.pendingReady = TRUE]]
              [] mode = "ready" -> [r |-> r1, cn |-> OnReady(cn1)]
              [] OTHER          -> [r |-> r1, cn |-> OnSession(OnReady(cn1), TRUE, d)]

\* An accept wrapper that sets authenticatedUser after the transport's accept.
CtxAcceptLate(st, mode, d) ==
    LET s2 == OriginalAccept(st, mode, d)
    IN [s2 EXCEPT !.cn.user = UserInfo(st.r)]

\* handleConnection's wrapper of ctx.accept.
CtxAccept(st, mode, d) ==
    OriginalAccept([st EXCEPT !.cn.user = UserInfo(st.r)], mode, d)

\* handleAuth's middlewareCtx.accept.
MiddlewareCtxAccept(st, mode, d) ==
    CtxAccept([st EXCEPT !.r.accepted = TRUE], mode, d)

\* handleAuth's middlewareCtx.reject.
MiddlewareCtxReject(r, methods) ==
    [r EXCEPT !.rejected = TRUE,
              !.calls = Append(@, NativeCall("reject", methods, "mw", r, NoUser))]

\* The transport hands a connection to handleConnection.
Connect ==
    /\ Idle
    /\ Len(conns) < NumConns
    /\ conns' = Append(conns, NewConnection)
    /\ UNCHANGED <<srv, hs, chain, disp, errors, sess, running>>

Decided(r) == r.calls # <<>>

\* 'authentication': handleAuth builds the context and starts the chain.
ClientAuth(c, u, m) ==
    /\ Idle
    /\ c \in DOMAIN conns
    /\ Len(disp) < MaxAttempts
    /\ ~conns[c].authed
    /\ \A d \in DOMAIN disp : disp[d].c = c => Decided(disp[d])
    /\ LET r == Settle(Enter(NewDispatch("auth", c, u, m), 0))
       IN /\ disp' = Append(disp, r)
          /\ running' = Continue(Len(disp) + 1, r, FALSE)
    /\ UNCHANGED <<srv, hs, chain, conns, errors, sess>>

\* Wrappers that do not record the result.
WrappedUntracked(r, wraps, result) == r

\* The wrappers logging has installed on ctx.accept or ctx.reject run
\* when it is called: each sets its authResult and calls the function it
\* wrapped, down to the original.
Wrapped(r, wraps, result) ==
    [r EXCEPT !.authResult = [k \in DOMAIN @ |-> IF k \in wraps THEN result ELSE @[k]]]

\* The accept or reject callback of a context the harness built.
MockCall(r, op, methods) ==
    [r EXCEPT !.calls = Append(@, NativeCall(op, methods, "mw", r, NoUser))]

\* ctx.accept() is called in dispatch d, whose record is r.
AcceptBy(d, r) ==
    IF r.term = "auth"
    THEN \E mode \in ReadyModes :
            LET st == MiddlewareCtxAccept(
                          [r |-> Wrapped(r, r.acceptWraps, "true"),
                           cn |-> conns[r.c]], mode, d)
            IN /\ disp' = [disp EXCEPT ![d] = st.r]
               /\ conns' = [conns EXCEPT ![r.c] = st.cn]
    ELSE /\ disp' = [disp EXCEPT ![d] =
                        MockCall(Wrapped(r, r.acceptWraps, "true"), "accept", "none")]
         /\ UNCHANGED conns

\* ctx.reject(methods) is called in dispatch d, whose record is r.
RejectBy(d, r, methods) ==
    /\ disp' = [disp EXCEPT ![d] =
                   IF r.term = "auth"
                   THEN MiddlewareCtxReject(Wrapped(r, r.rejectWraps, "false"), methods)
                   ELSE MockCall(Wrapped(r, r.rejectWraps, "false"), "reject", methods)]
    /\ UNCHANGED conns

\* A devMode that accepts whenever the context has an accept callback.
DevModeAcceptsAnyPhase(r) == r.hasAccept

\* devMode's test: ctx.phase === "auth" && ctx.accept.
DevModeAccepts(r) == r.phase = "auth" /\ r.hasAccept

\* devMode: if (ctx.phase === "auth" && ctx.accept) ctx.accept().
MwAccept(d) ==
    /\ Running(d)
    /\ OpAt(disp[d]) = "accept"
    /\ IF DevModeAccepts(disp[d])
       THEN AcceptBy(d, Advance(disp[d]))
       ELSE /\ disp' = [disp EXCEPT ![d] = Advance(@)]
            /\ UNCHANGED conns
    /\ running' = d
    /\ UNCHANGED <<srv, hs, chain, errors, sess>>

\* A middleware calls ctx.reject?.(["publickey"]).
MwReject(d) ==
    /\ Running(d)
    /\ OpAt(disp[d]) = "reject"
    /\ IF disp[d].hasReject
       THEN RejectBy(d, Advance(disp[d]), "publickey")
       ELSE /\ disp' = [disp EXCEPT ![d] = Advance(@)]
            /\ UNCHANGED conns
    /\ running' = d
    /\ UNCHANGED <<srv, hs, chain, errors, sess>>

\* The catch of handleAuth's promise: emit 'error', then ctx.reject().
AuthCatch(d) ==
    /\ Idle
    /\ d \in DOMAIN disp
    /\ disp[d].term = "auth"
    /\ disp[d].status = "rejected"
    /\ ~disp[d].caught
    /\ errors' = errors \cup {[att |-> d, err |-> disp[d].err]}
    /\ disp' = [disp EXCEPT ![d] =
                   [@ EXCEPT !.caught = TRUE,
                             !.calls = Append(@, NativeCall("reject", "none", "forced", disp[d], NoUser))]]
    /\ UNCHANGED <<srv, hs, chain, conns, sess, running>>

\* The transport raises 'ready' after an accept that returned first.
TransportReady(c) ==
    /\ Idle
    /\ c \in DOMAIN conns
    /\ conns[c].pendingReady
    /\ conns' = [conns EXCEPT ![c] = OnReady(@)]
    /\ UNCHANGED <<srv, hs, chain, disp, errors, sess, running>>

\* The transport raises 'session' on a connection.
SessionEvent(c) ==
    /\ Idle
    /\ c \in DOMAIN conns
    /\ Len(conns[c].sessions) < MaxSessions
    /\ conns' = [conns EXCEPT ![c] = OnSession(@, FALSE, 0)]
    /\ UNCHANGED <<srv, hs, chain, disp, errors, sess, running>>

InitAuth ==
    /\ chain \in Chains(AuthKinds, MaxAuthChain)
    /\ disp = <<>>
    /\ conns = InitConns
    /\ errors = {}
    /\ sess = InitSess
    /\ hs = InitHs
    /\ running = 0
    /\ srv = InitSrv

NextAuth ==
    \/ Connect
    \/ \E c \in 1..NumConns :
          \/ \E a \in Attempts : ClientAuth(c, a.username, a.method)
          \/ TransportReady(c)
          \/ SessionEvent(c)
    \/ \E d \in 1..MaxAttempts :
          \/ MwCode(d) \/ MwAwait(d) \/ MwNext(d) \/ MwReturn(d) \/ MwThrow(d)
          \/ MwAccept(d) \/ MwReject(d)
          \/ AuthCatch(d)

SpecAuth == InitAuth /\ [][NextAuth]_vars


(***************************************************************************)
(* SSHSession: the bridge between the SSH channel and the renderer.        *)
(*                                                                         *)
(* The channel (an ssh2 ServerChannel, a Node Duplex) and the renderer are *)
(* external.  The channel is modelled by the stream contract: write()      *)
(* either throws, and then never calls back, or takes the chunk and calls  *)
(* its callback once, later, with or without an error; end() and the       *)
(* 'close' event leave the stream not writable.  The renderer may flush at *)
(* any time and its idle() promise may resolve, reject or stay pending;    *)
(* destroy() may throw.  Listeners of the session's events return.         *)
(***************************************************************************)
Bufs == {"b1", "b2"}
ExitCodes == {0, 1}
WriteOutcomes == {"taken", "throws"}
DefaultPty == [term |-> "xterm", width |-> 80, height |-> 24]
IdleOutcomes == {"resolve", "reject", "destroyThrows"}

\* close() without an argument.
Undefined == -1
ExitArgs == {Undefined, 1}

\* close(exitCode: number = 0): the default parameter.
ExitCodeOf(arg) == IF arg = Undefined THEN 0 ELSE arg

\* One entry of the session's trace, in program order: a call made on the
\* channel or the renderer, an event emitted, an assignment to the pty, or
\* the close() call or channel event that began the teardown.
Trace(s, what, a, b) == [s EXCEPT !.log = Append(@, <<what, a, b>>)]

\* A close() call or channel event received: noted in calls, and in the
\* trace when it finds the session open.
Entered(s, what, a) ==
    LET s1 == [s EXCEPT !.calls = Append(@, what), !.teardowns = @ + 1]
    IN IF s.closed THEN s1 ELSE Trace(s1, what, a, 0)

\* The session after SSHSession.create: the fields of SSHSession, the
\* calls the channel and the renderer have received, the events emitted,
\* and one record per invocation of the flush handler.
NewSession(pty) ==
    [closed |-> FALSE, pty |-> pty, writable |-> TRUE,
     channel |-> <<>>, renderer |-> <<>>, idle |-> "none",
     closeEvents |-> 0, flushes |-> <<>>, teardowns |-> 0,
     calls |-> <<>>, log |-> <<>>, inputs |-> <<>>, resizes |-> <<>>]

FlushRecord(s, buf, path, cb, done) ==
    [buf |-> buf, closedAt |-> s.closed, writableAt |-> s.writable,
     path |-> path, cb |-> cb, done |-> done]

\* A flush handler whose catch block forgets the acknowledgment.
OnFlushNoDoneInCatch(s, buf, outcome) ==
    IF s.closed \/ ~s.writable
    THEN [s EXCEPT !.flushes = Append(@, FlushRecord(s, buf, "skipped", "none", 1))]
    ELSE IF outcome = "throws"
         THEN [s EXCEPT !.flushes = Append(@, FlushRecord(s, buf, "threw", "none", 0))]
         ELSE [s EXCEPT !.channel = Append(@, <<"write", buf>>),
                        !.flushes = Append(@, FlushRecord(s, buf, "written", "pending", 0))]

\* A flush handler that looks only at the channel, not at the closed flag.
OnFlushIgnoresClosed(s, buf, outcome) ==
    IF ~s.writable
    THEN [s EXCEPT !.flushes = Append(@, FlushRecord(s, buf, "skipped", "none", 1))]
    ELSE IF outcome = "throws"
         THEN [s EXCEPT !.flushes = Append(@, FlushRecord(s, buf, "threw", "none", 1))]
         ELSE [s EXCEPT !.channel = Append(@, <<"write", buf>>),
                        !.flushes = Append(@, FlushRecord(s, buf, "written", "pending", 0))]

\* A flush handler that acknowledges as soon as it has handed the buffer
\* to the channel, before the channel's write callback.
OnFlushDoneBeforeWritten(s, buf, outcome) ==
    IF s.closed \/ ~s.writable
    THEN [s EXCEPT !.flushes = Append(@, FlushRecord(s, buf, "skipped", "none", 1))]
    ELSE IF outcome = "throws"
         THEN [s EXCEPT !.flushes = Append(@, FlushRecord(s, buf, "threw", "none", 1))]
         ELSE [s EXCEPT !.channel = Append(@, <<"write", buf>>),
                        !.flushes = Append(@, FlushRecord(s, buf, "written", "pending", 1))]

\* The onFlush handler SSHSession.create gives the renderer.
OnFlush(s, buf, outcome) ==
    IF s.closed \/ ~s.writable
    THEN [s EXCEPT !.flushes = Append(@, FlushRecord(s, buf, "skipped", "none", 1))]
    ELSE IF outcome = "throws"
         THEN [s EXCEPT !.flushes = Append(@, FlushRecord(s, buf, "threw", "none", 1))]
         ELSE [s EXCEPT !.channel = Append(@, <<"write", buf>>),
                        !.flushes = Append(@, FlushRecord(s, buf, "written", "pending", 0))]

\* A write callback that gives the session up when the write failed.
OnWrittenFatal(s, f, err) ==
    [s EXCEPT !.flushes[f].cb = IF err THEN "error" ELSE "ok",
              !.flushes[f].done = @ + 1,
              !.closed = @ \/ err]

\* The callback onFlush passes to stream.write: log an error, then done().
OnWritten(s, f, err) ==
    [s EXCEPT !.flushes[f].cb = IF err THEN "error" ELSE "ok",
              !.flushes[f].done = @ + 1]

\* renderer.stop(), then renderer.idle() with its then and catch pending.
StopRenderer(s) ==
    Trace([s EXCEPT !.renderer = Append(@, "stop"), !.idle = "pending"],
          "renderer.stop", 0, 0)

\* The 'data' listener of the channel.
OnData(s) ==
    IF ~s.closed
    THEN [s EXCEPT !.inputs = Append(@, [closedAt |-> s.closed, injected |-> TRUE])]
    ELSE [s EXCEPT !.inputs = Append(@, [closedAt |-> s.closed, injected |-> FALSE])]

\* A cleanup without the closed test.
CleanupUnguarded(s) == StopRenderer([s EXCEPT !.closed = TRUE])

\* SSHSession._cleanup.
Cleanup(s) ==
    IF s.closed THEN s
    ELSE StopRenderer([s EXCEPT !.closed = TRUE])

\* A close that tears the renderer down before it ends the channel.
CloseSessionRendererFirst(s, code) ==
    IF s.closed THEN s
    ELSE Trace(Trace(StopRenderer([s EXCEPT !.closed = TRUE,
                                            !.channel = @ \o <<<<"exit", code>>, <<"end", "">>>>,
                                            !.writable = FALSE]),
                     "channel.exit", code, 0),
               "channel.end", 0, 0)

\* SSHSession.close(exitCode).
CloseSession(s, code) ==
    IF s.closed THEN s
    ELSE StopRenderer(
             Trace(Trace([s EXCEPT !.closed = TRUE,
                                   !.channel = @ \o <<<<"exit", code>>, <<"end", "">>>>,
                                   !.writable = FALSE],
                         "channel.exit", code, 0),
                   "channel.end", 0, 0))

\* The then and the catch chained on renderer.idle(): destroy the renderer
\* and emit 'close'; when idle() rejects or destroy() throws, the catch
\* emits 'close'.
OnIdleSettled(s, outcome) ==
    LET s0 == [s EXCEPT !.idle = "settled"]
        s1 == CASE outcome = "resolve" ->
                       Trace([s0 EXCEPT !.renderer = Append(@, "destroy")],
                             "renderer.destroy", 0, 0)
                [] outcome = "destroyThrows" ->
                       Trace([s0 EXCEPT !.renderer = Append(@, "destroy")],
                             "renderer.destroy", 1, 0)
                [] OTHER -> s0
    IN Trace([s1 EXCEPT !.closeEvents = @ + 1], "emit.close", 0, 0)

\* The renderer calls the flush handler with a buffer.
Flush(buf, outcome) ==
    /\ Len(sess.flushes) < MaxFlush
    /\ sess' = OnFlush(sess, buf, outcome)
    /\ UNCHANGED <<srv, hs, chain, disp, conns, errors, running>>

\* The channel completes a write it took.
WriteCallback(f, err) ==
    /\ f \in DOMAIN sess.flushes
    /\ sess.flushes[f].cb = "pending"
    /\ sess' = OnWritten(sess, f, err)
    /\ UNCHANGED <<srv, hs, chain, disp, conns, errors, running>>

\* The application calls session.close(exitCode).
Close(arg) ==
    /\ sess.teardowns < MaxTeardownCalls
    /\ sess' = CloseSession(Entered(sess, "close()", arg), ExitCodeOf(arg))
    /\ UNCHANGED <<srv, hs, chain, disp, conns, errors, running>>

\* The channel emits 'error': the listener calls _cleanup.
StreamError(stillWritable) ==
    /\ sess.teardowns < MaxTeardownCalls
    /\ sess' = Cleanup(Entered([sess EXCEPT !.writable = @ /\ stillWritable],
                                "on.error", 0))
    /\ UNCHANGED <<srv, hs, chain, disp, conns, errors, running>>

\* The channel emits 'close': the listener calls _cleanup.
StreamClose ==
    /\ sess.teardowns < MaxTeardownCalls
    /\ sess' = Cleanup(Entered([sess EXCEPT !.writable = FALSE], "on.close", 0))
    /\ UNCHANGED <<srv, hs, chain, disp, conns, errors, running>>

\* The channel stops being writable (the remote end is going away).
ChannelUnwritable ==
    /\ sess.writable
    /\ sess' = [sess EXCEPT !.writable = FALSE]
    /\ UNCHANGED <<srv, hs, chain, disp, conns, errors, running>>

\* renderer.idle() settles and the chained callbacks run.
IdleSettle(outcome) ==
    /\ sess.idle = "pending"
    /\ sess' = OnIdleSettled(sess, outcome)
    /\ UNCHANGED <<srv, hs, chain, disp, conns, errors, running>>

\* The renderer never becomes idle: the promise of idle() stays pending.
RendererStuck ==
    /\ sess.idle = "pending"
    /\ sess' = [sess EXCEPT !.idle = "stuck"]
    /\ UNCHANGED <<srv, hs, chain, disp, conns, errors, running>>

\* A resize that checks only the lower limit.
HandleResizeNoUpperLimit(s, width, height) ==
    IF width < 1 \/ height < 1
    THEN s
    ELSE Trace(Trace(Trace([s EXCEPT !.pty.width = width, !.pty.height = height],
                           "pty.set", width, height),
                     "renderer.resize", width, height),
               "emit.resize", width, height)

\* A resize that notifies before it resizes the renderer.
HandleResizeEmitFirst(s, width, height) ==
    IF width < 1 \/ height < 1 \/ width > 10000 \/ height > 10000
    THEN s
    ELSE Trace(Trace(Trace([s EXCEPT !.pty.width = width, !.pty.height = height],
                           "pty.set", width, height),
                     "emit.resize", width, height),
               "renderer.resize", width, height)

\* SSHSession.handleResize(width, height).
HandleResize(s, width, height) ==
    IF width < 1 \/ height < 1 \/ width > 10000 \/ height > 10000
    THEN s
    ELSE Trace(Trace(Trace([s EXCEPT !.pty.width = width, !.pty.height = height],
                           "pty.set", width, height),
                     "renderer.resize", width, height),
               "emit.resize", width, height)

\* handleResize is called (by the window-change listener or the
\* application); the call is noted with the pty and the trace around it.
Resize(width, height) ==
    /\ Len(sess.resizes) < MaxResize
    /\ LET s2 == HandleResize(sess, width, height)
       IN sess' = [s2 EXCEPT !.resizes =
                       Append(@, [width |-> width, height |-> height,
                                  before |-> sess.pty, after |-> s2.pty,
                                  from |-> Len(sess.log), to |-> Len(s2.log)])]
    /\ UNCHANGED <<srv, hs, chain, disp, conns, errors, running>>

\* The channel emits 'data'.
Data ==
    /\ Len(sess.inputs) < MaxData
    /\ sess' = OnData(sess)
    /\ UNCHANGED <<srv, hs, chain, disp, conns, errors, running>>

InitSession ==
    /\ chain = <<>>
    /\ disp = <<>>
    /\ conns = InitConns
    /\ errors = {}
    /\ sess = NewSession(DefaultPty)
    /\ hs = InitHs
    /\ running = 0
    /\ srv = InitSrv

NextSession ==
    \/ \E buf \in Bufs, outcome \in WriteOutcomes : Flush(buf, outcome)
    \/ \E f \in 1..MaxFlush, err \in BOOLEAN : WriteCallback(f, err)
    \/ \E arg \in ExitArgs : Close(arg)
    \/ \E w \in BOOLEAN : StreamError(w)
    \/ StreamClose
    \/ ChannelUnwritable
    \/ \E outcome \in IdleOutcomes : IdleSettle(outcome)
    \/ Data

SpecSession == InitSession /\ [][NextSession]_vars

(***************************************************************************)
(* The life cycle of one session: resize requests and teardown, with a     *)
(* renderer that may never become idle.  Once idle() is going to settle,   *)
(* the promise machinery runs the chained callbacks.                       *)
(***************************************************************************)
ResizeInputs ==
    {<<0, 24>>, <<80, 0>>, <<10001, 24>>, <<80, 10001>>, <<1, 10000>>, <<10000, 1>>}

NextLifecycle ==
    \/ \E arg \in ExitArgs : Close(arg)
    \/ \E w \in BOOLEAN : StreamError(w)
    \/ StreamClose
    \/ \E outcome \in IdleOutcomes : IdleSettle(outcome)
    \/ RendererStuck
    \/ \E d \in ResizeInputs : Resize(d[1], d[2])

SpecLifecycle == InitSession /\ [][NextLifecycle]_vars

SpecLifecycleLive ==
    /\ InitSession
    /\ [][NextLifecycle]_vars
    /\ WF_vars(\E outcome \in IdleOutcomes : IdleSettle(outcome))

(***************************************************************************)
(* SSHServer.handleSession: the requests of one SSH session of an          *)
(* authenticated connection.                                               *)
(*                                                                         *)
(* The transport raises 'pty', 'shell', 'exec' and 'window-change' with    *)
(* the client's values, which it does not validate; it raises 'shell'      *)
(* while the SSH session has no channel, the accept of an 'exec' yields a  *)
(* channel only then, and a request nobody listens for is not accepted.    *)
(* Constructing the session (the renderer) takes time and may fail.        *)
(***************************************************************************)
\* SSHServerConfig.requirePty as the application gave it.
RequirePtyConfigs == {"unset", "true", "false"}

\* The term of the client's pty request, if it has one.
ClientTerms == {"unset", "vt100"}

\* cols and rows of the client's pty and window-change requests.
ClientDims == {<<0, 0>>, <<120, 40>>, <<10001, 24>>}

\* this.requirePty = config.requirePty ?? true
RequirePty(cfg) == cfg # "false"

\* let ptyInfo: PtyInfo | null = null
NoPty == [term |-> "null", width |-> 0, height |-> 0]

ShellMiddlewareKinds == {"slow", "throw", "devMode"}

CreateError == "create failed"

\* The closure of handleSession and what the SSH session and the shell
\* channel have been asked and answered.
NewHandleSession(cfg) ==
    [requirePty |-> cfg, ptyInfo |-> NoPty, reqs |-> <<>>,
     stream |-> "none", streamCalls |-> <<>>, dispatches |-> 0,
     create |-> "none", finalPty |-> NoPty, windowChange |-> FALSE,
     sessionEvents |-> 0, exec |-> "none", execCalls |-> <<>>]

\* The SSH session has its channel: a shell or an exec was accepted.
HasChannel(h) == h.stream # "none" \/ h.exec # "none"

Request(h, req, cols, rows, reply) ==
    [h EXCEPT !.reqs = Append(@, [req |-> req, cols |-> cols, rows |-> rows,
                                  ptyAt |-> h.ptyInfo, created |-> h.create,
                                  reply |-> reply])]

\* The 'pty' listener.
OnPty(h, term, cols, rows) ==
    Request([h EXCEPT !.ptyInfo = [term |-> IF term = "unset" THEN "xterm" ELSE term,
                                   width |-> cols, height |-> rows]],
            "pty", cols, rows, "accept")

\* A shell listener that never refuses.
ShellDecisionAlwaysAccept(h) == "accept"

\* The first test of the 'shell' listener.
ShellDecision(h) ==
    IF RequirePty(h.requirePty) /\ h.ptyInfo = NoPty THEN "reject" ELSE "accept"

\* A shell listener that waits for the middleware before it creates the
\* session.
OnShellAcceptedAwaitsMiddleware(h) ==
    [h EXCEPT !.stream = "open",
              !.dispatches = @ + 1,
              !.finalPty = IF h.ptyInfo = NoPty THEN DefaultPty ELSE h.ptyInfo]

\* The 'shell' listener after it accepted the channel: it has started the
\* session-phase dispatch and called SSHSession.create.
OnShellAccepted(h) ==
    [h EXCEPT !.stream = "open",
              !.dispatches = @ + 1,
              !.finalPty = IF h.ptyInfo = NoPty THEN DefaultPty ELSE h.ptyInfo,
              !.create = "pending"]

\* An exec listener that accepts the channel and leaves it open.
OnExecLeftOpen(h, got) ==
    IF got
    THEN [Request(h, "exec", 0, 0, "accept") EXCEPT !.exec = "open"]
    ELSE Request(h, "exec", 0, 0, "nochannel")

\* The 'exec' listener: accept, and when that gave a channel, exit(1) and
\* end().
OnExec(h, got) ==
    IF got
    THEN [Request(h, "exec", 0, 0, "accept")
             EXCEPT !.exec = "ended",
                    !.execCalls = @ \o <<<<"exit", 1>>, <<"end", 0>>>>]
    ELSE Request(h, "exec", 0, 0, "nochannel")

\* handleResize as the window-change listener calls it, noted with the pty
\* and the trace around the call.
NotedResize(s, width, height) ==
    LET s2 == HandleResize(s, width, height)
    IN [s2 EXCEPT !.resizes =
            Append(@, [width |-> width, height |-> height,
                       before |-> s.pty, after |-> s2.pty,
                       from |-> Len(s.log), to |-> Len(s2.log)])]

\* A window-change listener that passes rows for the width.
OnWindowChangeSwapped(s, cols, rows) == NotedResize(s, rows, cols)

\* The 'window-change' listener: session.handleResize(info.cols, info.rows).
OnWindowChange(s, cols, rows) == NotedResize(s, cols, rows)

\* The client requests a pty.
PtyRequest(term, cols, rows) ==
    /\ Idle
    /\ Len(hs.reqs) < MaxRequests
    /\ hs' = OnPty(hs, term, cols, rows)
    /\ UNCHANGED <<srv, chain, disp, conns, errors, sess, running>>

\* The client requests a shell.
ShellRequest ==
    /\ Idle
    /\ Len(hs.reqs) < MaxRequests
    /\ ~HasChannel(hs)
    /\ IF ShellDecision(hs) = "reject"
       THEN /\ hs' = Request(hs, "shell", 0, 0, "reject")
            /\ UNCHANGED <<srv, disp, running>>
       ELSE LET r == Settle(Enter(NewDispatch("session", 0, "alice", "none"), 0))
            IN /\ hs' = OnShellAccepted(Request(hs, "shell", 0, 0, "accept"))
               /\ disp' = Append(disp, r)
               /\ running' = Continue(Len(disp) + 1, r, FALSE)
    /\ UNCHANGED <<srv, chain, conns, errors, sess>>

\* The then of SSHSession.create: register the window-change listener and
\* emit 'session'.
OnCreated(h) ==
    [h EXCEPT !.create = "resolved", !.windowChange = TRUE,
              !.sessionEvents = @ + 1]

\* A catch that reports the failure and leaves the shell channel open.
OnCreateFailedLeavesChannel(h) == [h EXCEPT !.create = "rejected"]

\* The catch of SSHSession.create, after the 'error' event: exit(1), end().
OnCreateFailed(h) ==
    [h EXCEPT !.create = "rejected", !.stream = "ended",
              !.streamCalls = @ \o <<<<"exit", 1>>, <<"end", 0>>>>]

\* SSHSession.create settles: the then or the catch of the shell listener.
CreateSettle(ok) ==
    /\ Idle
    /\ hs.create = "pending"
    /\ IF ok
       THEN /\ sess' = NewSession(hs.finalPty)
            /\ hs' = OnCreated(hs)
            /\ UNCHANGED errors
       ELSE /\ errors' = errors \cup {[att |-> 0, err |-> CreateError]}
            /\ hs' = OnCreateFailed(hs)
            /\ UNCHANGED sess
    /\ UNCHANGED <<srv, chain, disp, conns, running>>

\* The client reports a new window size.
WindowChange(cols, rows) ==
    /\ Idle
    /\ Len(hs.reqs) < MaxRequests
    /\ IF hs.windowChange
       THEN /\ sess' = OnWindowChange(sess, cols, rows)
            /\ hs' = Request(hs, "window-change", cols, rows, "accept")
       ELSE /\ hs' = Request(hs, "window-change", cols, rows, "unhandled")
            /\ UNCHANGED sess
    /\ UNCHANGED <<srv, chain, disp, conns, errors, running>>

\* The client requests the execution of a command.
ExecRequest ==
    /\ Idle
    /\ Len(hs.reqs) < MaxRequests
    /\ hs' = OnExec(hs, ~HasChannel(hs))
    /\ UNCHANGED <<srv, chain, disp, conns, errors, sess, running>>

\* The catch on the session-phase dispatch: the server emits 'error'.
ShellCatch(d) ==
    /\ Idle
    /\ d \in DOMAIN disp
    /\ disp[d].term = "session"
    /\ disp[d].status = "rejected"
    /\ ~disp[d].caught
    /\ errors' = errors \cup {[att |-> d, err |-> disp[d].err]}
    /\ disp' = [disp EXCEPT ![d].caught = TRUE]
    /\ UNCHANGED <<srv, chain, conns, sess, hs, running>>

InitShell ==
    /\ chain \in Chains(ShellMiddlewareKinds, 1)
    /\ disp = <<>>
    /\ conns = InitConns
    /\ errors = {}
    /\ sess = InitSess
    /\ hs \in {NewHandleSession(cfg) : cfg \in RequirePtyConfigs}
    /\ running = 0
    /\ srv = InitSrv

NextShell ==
    \/ \E term \in ClientTerms, d \in ClientDims : PtyRequest(term, d[1], d[2])
    \/ ShellRequest
    \/ \E ok \in BOOLEAN : CreateSettle(ok)
    \/ \E d \in ClientDims : WindowChange(d[1], d[2])
    \/ ExecRequest
    \/ \E d \in 1..MaxSessions :
           \/ MwAwait(d) \/ MwCode(d) \/ MwNext(d) \/ MwReturn(d) \/ MwThrow(d)
           \/ MwAccept(d) \/ ShellCatch(d)

SpecShell == InitShell /\ [][NextShell]_vars


(***************************************************************************)
(* Properties of compose (SpecCompose).                                    *)
(***************************************************************************)
IsPrefix(s, t) == Len(s) <= Len(t) /\ SubSeq(t, 1, Len(s)) = s

\* before-code of the middlewares with indices a..b, ascending.
Befores(a, b) == [j \in 1..(b - a + 1) |-> <<"before", a + j - 1>>]

\* after-code of the middlewares with indices b down to a.
Afters(b, a) == [j \in 1..(b - a + 1) |-> <<"after", b - j + 1>>]

OnionOrder(n) == Befores(0, n - 1) \o <<<<"final", n>>>> \o Afters(n - 1, 0)

\* Every middleware runs before-code, awaits next() once, runs after-code.
Onion(kind) == kind \in {"wrap", "slow"}

AllWrap == \A k \in 1..Len(chain) : Onion(chain[k])

\* C1: in a chain of n >= 0 middlewares that each run before-code, await
\* next() once and run after-code, a dispatch runs the before-code in
\* ascending index order, then the terminal continuation exactly once, then
\* the after-code in descending order, and resolves; with n = 0 it is one
\* call of the terminal continuation.
C1_OnionOrder ==
    AllWrap =>
        \A d \in DOMAIN disp :
            /\ IsPrefix(disp[d].order, OnionOrder(Len(chain)))
            /\ disp[d].status # "rejected"
            /\ disp[d].finals = (IF <<"final", Len(chain)>> \in Range(disp[d].order) THEN 1 ELSE 0)
            /\ disp[d].status = "resolved" =>
                   /\ disp[d].order = OnionOrder(Len(chain))
                   /\ disp[d].finals = 1
            /\ Len(chain) = 0 => disp[d].status = "resolved" /\ disp[d].order = <<<<"final", 0>>>>

C1_Witness ==
    /\ AllWrap
    /\ Len(chain) = 3
    /\ \E d \in DOMAIN disp : disp[d].status = "resolved" /\ Len(disp[d].order) = 7

\* The first middleware that calls next() twice is reached: nothing
\* before it returns without calling next.
ReachesTwice ==
    \E k \in 1..Len(chain) :
        /\ chain[k] = "twice"
        /\ \A j \in 1..(k - 1) : Onion(chain[j])

\* C2: a second next() within one activation fails with the error
\* 'next() called multiple times' (it starts no middleware and does not
\* call the terminal continuation again), and the dispatch of the composed
\* chain rejects with that error and never resolves.
C2_NextTwiceFaults ==
    \A d \in DOMAIN disp :
        /\ \A k \in 1..Len(disp[d].stack) : disp[d].stack[k].nexts <= 1
        /\ disp[d].finals <= 1
        /\ disp[d].faults > 0 =>
               disp[d].status = "rejected" /\ disp[d].err = NextTwiceError
        /\ ReachesTwice =>
               /\ disp[d].status # "resolved"
               /\ disp[d].status = "rejected" =>
                      disp[d].err = NextTwiceError /\ disp[d].faults = 1

C2_Witness ==
    /\ Len(chain) = 3
    /\ chain[1] = "slow" /\ chain[2] = "twice"
    /\ \E d \in DOMAIN disp :
           /\ disp[d].status = "rejected"
           /\ disp[d].err = NextTwiceError
           /\ disp[d].finals = 1

\* m_k (index k - 1) is the first middleware that returns without calling
\* next, and the ones before it are onion middlewares.
ShortAt(k) ==
    /\ k \in 1..Len(chain)
    /\ chain[k] = "short"
    /\ \A j \in 1..(k - 1) : Onion(chain[j])

ShortOrder(k) == Befores(0, k - 1) \o Afters(k - 2, 0)

\* C3: if m_k returns without calling next, no middleware after m_k runs,
\* the terminal continuation is not called, the after-code of
\* m_1..m_(k-1) runs in descending order and the dispatch resolves
\* without a fault.
C3_ShortCircuit ==
    \A k \in 1..Len(chain) :
        ShortAt(k) =>
            \A d \in DOMAIN disp :
                /\ \A e \in Range(disp[d].order) : e[2] <= k - 1
                /\ disp[d].finals = 0
                /\ disp[d].index <= k - 1
                /\ IsPrefix(disp[d].order, ShortOrder(k))
                /\ disp[d].status # "rejected" /\ disp[d].faults = 0
                /\ disp[d].status = "resolved" => disp[d].order = ShortOrder(k)

C3_Witness ==
    /\ Len(chain) = 3
    /\ ShortAt(2)
    /\ \E d \in DOMAIN disp :
           disp[d].status = "resolved" /\ disp[d].order = ShortOrder(2)

(***************************************************************************)
(* Properties of the authentication phase (SpecAuth).                      *)
(***************************************************************************)
AuthDispatches == {d \in DOMAIN disp : disp[d].term = "auth"}

\* handleAuth's promise has settled and, if it rejected, its catch has run.
AuthSettled(r) ==
    \/ r.status = "resolved"
    \/ r.status = "rejected" /\ r.caught

CallsBy(r, by) == {k \in 1..Len(r.calls) : r.calls[k].by = by}

AcceptCalls(r) == {k \in 1..Len(r.calls) : r.calls[k].op = "accept"}

C5_NeverPending ==
    \A d \in AuthDispatches :
        AuthSettled(disp[d]) => disp[d].calls # <<>>

\* C6: handleSession runs on a connection only after an attempt on that
\* connection was accepted through the middleware chain (a middleware
\* called ctx.accept, which set the accepted flag and invoked the
\* transport's accept); a connection without such an attempt has no
\* 'session' listener and no session.
AcceptedThroughChain(c) ==
    \E d \in AuthDispatches :
        /\ disp[d].c = c
        /\ disp[d].accepted
        /\ \E k \in AcceptCalls(disp[d]) : disp[d].calls[k].by = "mw"

C6_SessionOnlyAfterAccept ==
    \A c \in DOMAIN conns :
        (conns[c].sessions # <<>> \/ conns[c].listeners > 0) =>
            AcceptedThroughChain(c) /\ conns[c].authed

C6_Witness ==
    \E c \in DOMAIN conns :
        /\ conns[c].sessions # <<>>
        /\ \E k \in DOMAIN conns[c].sessions : ~conns[c].sessions[k].sync
        /\ \E d \in AuthDispatches : disp[d].c = c /\ disp[d].status = "resolved"

\* C7 as stated: within one attempt at most one decision reaches the
\* transport; later calls of ctx.accept or ctx.reject and the forced
\* reject after an error are not forwarded.
C7_AtMostOneDecision ==
    \A d \in AuthDispatches : Len(disp[d].calls) <= 1

\* C8 as stated: if a middleware throws during an auth dispatch, the
\* server emits 'error' with that error, the transport's reject is
\* invoked for the attempt, and the attempt does not end accepted.
C8_ThrowForcesReject ==
    \A d \in AuthDispatches :
        (disp[d].status = "rejected" /\ disp[d].caught) =>
            /\ [att |-> d, err |-> disp[d].err] \in errors
            /\ \E k \in 1..Len(disp[d].calls) : disp[d].calls[k].op = "reject"
            /\ AcceptCalls(disp[d]) = {}
            /\ ~conns[disp[d].c].authed

\* C9: when the transport's accept is invoked for an attempt, the accepted
\* flag of the dispatch and authenticatedUser (the attempt's username, and
\* the key algorithm for publickey auth) are already set, so a session
\* the transport raises from inside accept is handled with that user and
\* never with a null user.
C9_RecordBeforeForward ==
    /\ \A d \in AuthDispatches :
           \A k \in AcceptCalls(disp[d]) :
               /\ disp[d].calls[k].flag
               /\ disp[d].calls[k].user = UserInfo(disp[d])
    /\ \A c \in DOMAIN conns :
           \A k \in DOMAIN conns[c].sessions :
               LET sn == conns[c].sessions[k]
               IN sn.sync =>
                      /\ sn.user # NoUser
                      /\ sn.att \in AuthDispatches
                      /\ disp[sn.att].c = c
                      /\ sn.user = UserInfo(disp[sn.att])

C9_Witness ==
    \E c \in DOMAIN conns :
        \E k \in DOMAIN conns[c].sessions :
            /\ conns[c].sessions[k].sync
            /\ conns[c].sessions[k].user = [username |-> "bob", publicKey |-> KeyAlgo]

(***************************************************************************)
(* Properties of the session bridge (SpecSession).                         *)
(***************************************************************************)
\* C10: every invocation of the flush handler calls done exactly once:
\* at once when the session is closed or the channel is not writable, from
\* the catch block when channel.write throws, and from the channel's
\* write-completion callback otherwise, whether or not it reports an
\* error; no interleaving with close(), channel events or other flushes
\* makes it zero or two.
C10_DoneExactlyOnce ==
    \A f \in DOMAIN sess.flushes :
        LET fl == sess.flushes[f]
        IN /\ fl.done <= 1
           /\ (fl.closedAt \/ ~fl.writableAt) <=> fl.path = "skipped"
           /\ fl.path \in {"skipped", "threw"} => fl.done = 1 /\ fl.cb = "none"
           /\ fl.path = "written" =>
                  /\ fl.cb = "pending" => fl.done = 0
                  /\ fl.cb \in {"ok", "error"} => fl.done = 1
                  /\ fl.cb # "none"

C10_Witness ==
    /\ Len(sess.flushes) = 2
    /\ sess.flushes[1].path = "written" /\ sess.flushes[1].cb = "error"
    /\ sess.flushes[2].path = "threw"
    /\ sess.closeEvents = 1

\* C11: once the closed flag is set, a channel 'data' event is dropped
\* without a call of renderer.injectInput, and a flush writes nothing to
\* the channel and only acknowledges (done once, no write, no callback, not
\* the catch path), even while the channel is still writable; the channel
\* receives exactly one write per flush that took the write path.
ChannelWrites(s) == {i \in DOMAIN s.channel : s.channel[i][1] = "write"}

WrittenFlushes(s) == {f \in DOMAIN s.flushes : s.flushes[f].path = "written"}

C11_ClosedDropsInputAndFlush ==
    /\ \A k \in DOMAIN sess.inputs :
           sess.inputs[k].closedAt => ~sess.inputs[k].injected
    /\ \A f \in DOMAIN sess.flushes :
           sess.flushes[f].closedAt =>
               /\ sess.flushes[f].path = "skipped"
               /\ sess.flushes[f].cb = "none"
               /\ sess.flushes[f].done = 1
    /\ Cardinality(ChannelWrites(sess)) = Cardinality(WrittenFlushes(sess))

C11_Witness ==
    /\ sess.closed
    /\ Len(sess.flushes) = 2
    /\ sess.flushes[1].path = "written"
    /\ sess.flushes[2].closedAt /\ sess.flushes[2].writableAt
    /\ sess.flushes[2].path = "skipped"
    /\ Len(sess.inputs) = 1 /\ sess.inputs[1].closedAt

(***************************************************************************)
(* Properties of the session life cycle (SpecLifecycle).                   *)
(***************************************************************************)
LogCount(s, what) == Cardinality({i \in DOMAIN s.log : s.log[i][1] = what})

\* The position of the first entry of that kind in the trace, or 0.
LogAt(s, what) ==
    IF \E i \in DOMAIN s.log : s.log[i][1] = what
    THEN CHOOSE i \in DOMAIN s.log :
             /\ s.log[i][1] = what
             /\ \A j \in 1..(i - 1) : s.log[j][1] # what
    ELSE 0

\* C12: for any sequence of close() calls and channel error/close events
\* the 'close' event is emitted at most once, and exactly once when the
\* idle wait has settled; a close() or channel event that finds the
\* session closed changes nothing (no channel exit/end, no renderer call,
\* no 'close' event); the closed flag never goes back to false.
C12_CloseEmittedOnce ==
    /\ [](/\ sess.closeEvents <= 1
          /\ LogCount(sess, "emit.close") = sess.closeEvents
          /\ sess.idle = "settled" => sess.closeEvents = 1)
    /\ [][/\ sess.closed => sess'.closed
          /\ (sess.closed /\ sess'.teardowns # sess.teardowns) =>
                 /\ sess'.channel = sess.channel
                 /\ sess'.renderer = sess.renderer
                 /\ sess'.log = sess.log
                 /\ sess'.idle = sess.idle
                 /\ sess'.closeEvents = sess.closeEvents]_vars

C12_Witness ==
    /\ sess.calls = <<"on.error", "close()">>
    /\ sess.idle = "settled"
    /\ sess.closeEvents = 1
    /\ sess.channel = <<>>

\* C13: a close(exitCode) that finds the session open calls
\* channel.exit(exitCode) and then channel.end(), once each, and only then
\* renderer.stop(), all within the call, before the idle wait settles;
\* without an argument the exit code is 0.
C13_ChannelEndedFirst ==
    /\ LogCount(sess, "close()") <= 1
    /\ LogCount(sess, "channel.exit") = LogCount(sess, "close()")
    /\ LogCount(sess, "channel.end") = LogCount(sess, "close()")
    /\ \A i \in DOMAIN sess.log :
           sess.log[i][1] = "close()" =>
               /\ i + 3 <= Len(sess.log)
               /\ sess.log[i + 1] = <<"channel.exit", ExitCodeOf(sess.log[i][2]), 0>>
               /\ sess.log[i + 2] = <<"channel.end", 0, 0>>
               /\ sess.log[i + 3] = <<"renderer.stop", 0, 0>>
               /\ sess.channel = <<<<"exit", ExitCodeOf(sess.log[i][2])>>, <<"end", "">>>>

C13_Witness ==
    /\ sess.calls = <<"close()">>
    /\ sess.log[1] = <<"close()", Undefined, 0>>
    /\ sess.log[2] = <<"channel.exit", 0, 0>>
    /\ sess.idle = "pending"

\* C14: whenever 'close' has been emitted, the teardown performed exactly
\* renderer.stop(), the idle wait, renderer.destroy() and then the
\* emission, in that order, whichever call began it.
C14_TeardownOrder ==
    sess.closeEvents >= 1 =>
        /\ sess.idle = "settled"
        /\ sess.renderer = <<"stop", "destroy">>
        /\ LET i == LogAt(sess, "renderer.stop")
           IN /\ i > 0 /\ i + 2 <= Len(sess.log)
              /\ sess.log[i + 1][1] = "renderer.destroy"
              /\ sess.log[i + 2][1] = "emit.close"

\* C15: whenever 'close' has been emitted, renderer.destroy() has been
\* called before it.
C15_DestroyedBeforeClose ==
    sess.closeEvents >= 1 =>
        /\ LogAt(sess, "renderer.destroy") > 0
        /\ LogAt(sess, "renderer.destroy") < LogAt(sess, "emit.close")

\* C16: once the closed flag is set, 'close' is eventually emitted.
C16_CloseEventuallyEmitted ==
    [](sess.closed => <>(sess.closeEvents >= 1))

OutOfRange(width, height) ==
    width < 1 \/ height < 1 \/ width > 10000 \/ height > 10000

\* C17: handleResize(w, h) with w < 1, h < 1, w > 10000 or h > 10000
\* changes nothing: the pty (width, height, term) is as before and the
\* call adds nothing to the trace (no renderer.resize, no 'resize' event).
C17_InvalidResizeIgnored ==
    \A k \in DOMAIN sess.resizes :
        LET r == sess.resizes[k]
        IN OutOfRange(r.width, r.height) =>
               /\ r.after = r.before
               /\ r.to = r.from

C17_Witness ==
    /\ Len(sess.resizes) = 2
    /\ sess.resizes[1].width = 10001
    /\ sess.resizes[2].height = 0
    /\ sess.pty = DefaultPty
    /\ LogCount(sess, "renderer.resize") = 0

\* C18: handleResize(w, h) with w and h in 1..10000 sets pty.width = w and
\* pty.height = h, then calls renderer.resize(w, h), then emits one
\* 'resize' event with (w, h), in that order, and leaves pty.term as it was.
C18_ValidResizeApplied ==
    \A k \in DOMAIN sess.resizes :
        LET r == sess.resizes[k]
        IN ~OutOfRange(r.width, r.height) =>
               /\ r.after = [term |-> r.before.term,
                             width |-> r.width, height |-> r.height]
               /\ r.to = r.from + 3
               /\ sess.log[r.from + 1] = <<"pty.set", r.width, r.height>>
               /\ sess.log[r.from + 2] = <<"renderer.resize", r.width, r.height>>
               /\ sess.log[r.from + 3] = <<"emit.resize", r.width, r.height>>

C18_Witness ==
    /\ Len(sess.resizes) = 2
    /\ sess.resizes[1].width = 1 /\ sess.resizes[1].height = 10000
    /\ sess.resizes[2].width = 10000 /\ sess.resizes[2].height = 1
    /\ sess.pty = [term |-> "xterm", width |-> 10000, height |-> 1]
    /\ LogCount(sess, "emit.resize") = 2

(***************************************************************************)
(* Properties of handleSession (SpecShell).                                *)
(***************************************************************************)
\* C19: the pty of every session that exists has width and height within
\* 1..10000, whatever the client sent in its pty request and in its
\* window-change requests.
C19_PtyWithinLimits ==
    hs.create = "resolved" =>
        /\ sess.pty.width \in 1..10000
        /\ sess.pty.height \in 1..10000

ShellRequests(h, reply) ==
    {k \in DOMAIN h.reqs : h.reqs[k].req = "shell" /\ h.reqs[k].reply = reply}

\* C20: a shell request is refused exactly when requirePty is true (also
\* by default) and no pty request came before it.  A refused request
\* leaves the shell channel unaccepted and starts no session-phase
\* dispatch, no SSHSession and no 'session' event; a shell request made
\* after a pty request is accepted.
C20_ShellNeedsPty ==
    /\ \A k \in DOMAIN hs.reqs :
           hs.reqs[k].req = "shell" =>
               (hs.reqs[k].reply = "reject"
                    <=> (hs.requirePty # "false" /\ hs.reqs[k].ptyAt = NoPty))
    /\ ShellRequests(hs, "accept") = {} =>
           /\ hs.stream = "none"
           /\ disp = <<>>
           /\ hs.create = "none"
           /\ hs.sessionEvents = 0
           /\ sess = InitSess
    /\ Cardinality(ShellRequests(hs, "accept")) = Len(disp)
    /\ hs.sessionEvents <= Len(disp)

C20_Witness ==
    /\ hs.requirePty = "unset"
    /\ Len(hs.reqs) = 3
    /\ hs.reqs[1].req = "shell" /\ hs.reqs[1].reply = "reject"
    /\ hs.reqs[2].req = "pty"
    /\ hs.reqs[3].req = "shell" /\ hs.reqs[3].reply = "accept"
    /\ hs.create = "resolved"
    /\ hs.sessionEvents = 1

(***************************************************************************)
(* The built-in middlewares logging, publicKey and devMode, dispatched by  *)
(* the harness of middleware.test: one composed chain, one context whose   *)
(* phase, callbacks and client key the test chooses, and a recording       *)
(* terminal continuation.  logging is given onAuthAttempt, onConnect and   *)
(* onDisconnect.  connects are the onConnect calls of the dispatch,        *)
(* closeListeners the listeners it has put on the 'close' event of         *)
(* ctx.connection, closeEmits the times the connection has emitted 'close' *)
(* and disconnects the onDisconnect calls, each with the number of the     *)
(* emission that caused it.                                                *)
(*                                                                         *)
(* Text in base64 is a sequence of digits 0..63 with Pad for '='; a key    *)
(* string of options.authorizedKeys is the sequence of its words, which    *)
(* is what split(" ") makes of it.                                         *)
(***************************************************************************)
Pad == 64

\* Buffer.toString("base64") of a sequence of bytes.
RECURSIVE Base64(_)
Base64(b) ==
    CASE Len(b) = 0 -> <<>>
      [] Len(b) = 1 -> <<b[1] \div 4, (b[1] % 4) * 16, Pad, Pad>>
      [] Len(b) = 2 -> <<b[1] \div 4, (b[1] % 4) * 16 + b[2] \div 16,
                         (b[2] % 16) * 4, Pad>>
      [] OTHER      -> <<b[1] \div 4, (b[1] % 4) * 16 + b[2] \div 16,
                         (b[2] % 16) * 4 + b[3] \div 64, b[3] % 64>>
                       \o Base64(SubSeq(b, 4, Len(b)))

\* options.authorizedKeys of each publicKey instance.
AuthorizedKeys(kind) ==
    CASE kind = "publicKey:one" ->
            << <<"ssh-ed25519", <<0, 0, 0, 11>>, "test@host">> >>
      [] kind = "publicKey:mixed" ->
            << <<"garbage">>,
               <<"ssh-rsa", <<0, 0, 0, 12>>>>,
               <<"ssh-ed25519", <<0, 0, 0, 63, 1, 32, Pad, Pad>>, "ops@host">> >>
      [] OTHER -> <<>>

\* The keys a client presents: algorithm and key blob.
ClientKeys ==
    {NoKey,
     [algo |-> "ssh-ed25519", data |-> <<0, 0, 11>>],
     [algo |-> "ssh-ed25519", data |-> <<0, 0, 12>>],
     [algo |-> "ssh-rsa", data |-> <<0, 0, 11>>],
     [algo |-> "ssh-ed25519", data |-> <<0, 0, 63, 6>>]}

\* publicKey's parse of its key strings: type and key of every string
\* that has at least two words.
ParsedAuthorizedKeys(keys) ==
    LET ok == SelectSeq(keys, LAMBDA w : Len(w) >= 2)
    IN [k \in DOMAIN ok |-> [type |-> ok[k][1], key |-> ok[k][2]]]

\* A comparison of the key type only.
MatchesKeyTypeOnly(clientKeyType, clientKeyData, authorizedKeys) ==
    \E k \in DOMAIN authorizedKeys : authorizedKeys[k].type = clientKeyType

\* matchesKey.
MatchesKey(clientKeyType, clientKeyData, authorizedKeys) ==
    \E k \in DOMAIN authorizedKeys :
        /\ authorizedKeys[k].type = clientKeyType
        /\ authorizedKeys[k].key = clientKeyData

\* What the publicKey middleware does with a context.
PublicKeyDecision(r, keys) ==
    CASE r.phase # "auth" -> "pass"
      [] r.clientKey = NoKey -> "pass"
      [] MatchesKey(r.clientKey.algo, Base64(r.clientKey.data),
                    ParsedAuthorizedKeys(keys)) -> "accept"
      [] OTHER -> "reject"

\* A session branch that calls onConnect and registers nothing.
LoggingSessionNoListener(r, k) ==
    [r EXCEPT !.connects = Append(@, [by |-> k, index |-> r.index, finals |-> r.finals])]

\* logging's session branch before next(): onConnect(ctx), then
\* ctx.connection.on("close", () => onDisconnect(ctx)).
LoggingSession(r, k) ==
    [r EXCEPT !.connects = Append(@, [by |-> k, index |-> r.index, finals |-> r.finals]),
              !.closeListeners = @ + 1]

\* The connection of the context emits 'close': every listener runs.
OnConnectionClose(r) ==
    [r EXCEPT !.closeEmits = @ + 1,
              !.disconnects = @ \o [j \in 1..r.closeListeners |-> r.closeEmits + 1]]

\* logging, before next(): in the auth phase it wraps the accept and the
\* reject callback the context has.
MwTrack(d) ==
    /\ Running(d)
    /\ OpAt(disp[d]) = "track"
    /\ LET r == disp[d]
           k == Top(r).i + 1
       IN disp' = [disp EXCEPT ![d] =
             IF r.phase = "auth"
             THEN [Advance(r) EXCEPT
                      !.acceptWraps = IF r.hasAccept THEN @ \cup {k} ELSE @,
                      !.rejectWraps = IF r.hasReject THEN @ \cup {k} ELSE @]
             ELSE LoggingSession(Advance(r), k)]
    /\ running' = d
    /\ UNCHANGED <<srv, hs, chain, conns, errors, sess>>

\* logging, after next() has returned: onAuthAttempt(ctx, authResult)
\* when a result was recorded.
MwReport(d) ==
    /\ Running(d)
    /\ OpAt(disp[d]) = "report"
    /\ LET r == disp[d]
           k == Top(r).i + 1
       IN disp' = [disp EXCEPT ![d] =
             IF r.phase = "auth" /\ r.authResult[k] # "null"
             THEN [Advance(r) EXCEPT !.reports = Append(@,
                      [by |-> k, username |-> r.username,
                       success |-> r.authResult[k] = "true",
                       depth |-> Len(r.stack), finals |-> r.finals,
                       calls |-> Len(r.calls)])]
             ELSE Advance(r)]
    /\ running' = d
    /\ UNCHANGED <<srv, hs, chain, conns, errors, sess>>

\* publicKey, up to its next(): ctx.accept?.() or
\* ctx.reject?.(["publickey"]) for a client key in the auth phase.
MwDecide(d) ==
    /\ Running(d)
    /\ OpAt(disp[d]) = "decide"
    /\ LET r == disp[d]
           decision == PublicKeyDecision(r, AuthorizedKeys(chain[Top(r).i + 1]))
       IN CASE decision = "accept" /\ r.hasAccept -> AcceptBy(d, Advance(r))
            [] decision = "reject" /\ r.hasReject -> RejectBy(d, Advance(r), "publickey")
            [] OTHER -> /\ disp' = [disp EXCEPT ![d] = Advance(r)]
                        /\ UNCHANGED conns
    /\ running' = d
    /\ UNCHANGED <<srv, hs, chain, errors, sess>>

BuiltinKinds == {"logging", "devMode", "reject"} \cup PublicKeyKinds

Phases == {"auth", "session"}

\* The callbacks a test context carries: accept, reject.
Callbacks == {<<FALSE, FALSE>>, <<TRUE, FALSE>>, <<TRUE, TRUE>>}

\* createMockContext(overrides).
MockContext(phase, cb, key) ==
    [NewDispatch("final", 0, "testuser",
                 IF key = NoKey THEN "none" ELSE "publickey")
        EXCEPT !.phase = phase, !.hasAccept = cb[1], !.hasReject = cb[2],
               !.clientKey = key]

\* The test calls composed(ctx, final) once.
StartBuiltin(phase, cb, key) ==
    /\ Idle
    /\ disp = <<>>
    /\ LET r == Settle(Enter(MockContext(phase, cb, key), 0))
       IN /\ disp' = <<r>>
          /\ running' = Continue(1, r, FALSE)
    /\ UNCHANGED <<srv, hs, chain, conns, errors, sess>>

InitBuiltin ==
    /\ chain \in Chains(BuiltinKinds, MaxAuthChain)
    /\ disp = <<>>
    /\ conns = InitConns
    /\ errors = {}
    /\ sess = InitSess
    /\ hs = InitHs
    /\ running = 0
    /\ srv = InitSrv

\* ctx.connection emits 'close'.
ConnectionClose ==
    /\ Idle
    /\ Len(disp) = 1
    /\ disp[1].closeEmits < MaxCloseEvents
    /\ disp' = [disp EXCEPT ![1] = OnConnectionClose(@)]
    /\ UNCHANGED <<srv, hs, chain, conns, errors, sess, running>>

NextBuiltin ==
    \/ \E phase \in Phases, cb \in Callbacks, key \in ClientKeys :
           StartBuiltin(phase, cb, key)
    \/ ConnectionClose
    \/ MwNext(1) \/ MwReturn(1)
    \/ MwAccept(1) \/ MwReject(1)
    \/ MwTrack(1) \/ MwReport(1) \/ MwDecide(1)

SpecBuiltin == InitBuiltin /\ [][NextBuiltin]_vars

ExecRequests(h, reply) ==
    {k \in DOMAIN h.reqs : h.reqs[k].req = "exec" /\ h.reqs[k].reply = reply}

\* C21: an exec request whose channel is accepted has that channel
\* terminated within the handler with exit status 1 and then end(), so it
\* is never left open; it starts no session-phase dispatch, no SSHSession
\* and no 'session' event, and the shell is never entered on that channel.
C21_ExecAcceptedThenExited ==
    /\ \A k \in DOMAIN hs.reqs :
           hs.reqs[k].req = "exec" => hs.reqs[k].reply \in {"accept", "nochannel"}
    /\ Cardinality(ExecRequests(hs, "accept")) <= 1
    /\ ExecRequests(hs, "accept") = {} => hs.exec = "none" /\ hs.execCalls = <<>>
    /\ ExecRequests(hs, "accept") # {} =>
           /\ hs.exec = "ended"
           /\ hs.execCalls = <<<<"exit", 1>>, <<"end", 0>>>>
           /\ hs.stream = "none"
           /\ disp = <<>>
           /\ hs.create = "none"
           /\ hs.sessionEvents = 0
           /\ sess = InitSess

C21_Witness ==
    /\ Len(hs.reqs) = 3
    /\ hs.reqs[1].req = "pty"
    /\ hs.reqs[2].req = "exec" /\ hs.reqs[2].reply = "accept"
    /\ hs.reqs[3].req = "exec" /\ hs.reqs[3].reply = "nochannel"
    /\ hs.execCalls = <<<<"exit", 1>>, <<"end", 0>>>>

\* C22: a middleware that throws in the session-phase dispatch of a shell
\* request makes the server emit 'error', and nothing else: whenever that
\* dispatch exists, SSHSession.create has been started for the request,
\* whatever the dispatch does; when create resolves the 'session' event is
\* emitted, and the shell channel is ended only when create itself fails.
C22_MiddlewareErrorKeepsSession ==
    /\ \A d \in DOMAIN disp :
           disp[d].term = "session" =>
               /\ hs.create # "none"
               /\ disp[d].caught => [att |-> d, err |-> disp[d].err] \in errors
    /\ hs.create = "resolved" => hs.sessionEvents = 1 /\ sess # InitSess
    /\ hs.create # "rejected" => hs.streamCalls = <<>>

C22_Witness ==
    /\ chain = <<"throw">>
    /\ Len(disp) = 1
    /\ disp[1].status = "rejected" /\ disp[1].caught
    /\ [att |-> 1, err |-> BoomError] \in errors
    /\ hs.create = "resolved"
    /\ hs.sessionEvents = 1

\* C23: a failed channel write in the flush handler (write throws, or the
\* write callback gets an error) is not fatal: no step that adds or
\* completes a flush changes the closed flag, the renderer, the 'close'
\* events or the channel's state, and a flush that finds the session open
\* and the channel writable is given to the channel, also after a failure.
C23_WriteFailureNotFatal ==
    /\ [][sess'.flushes # sess.flushes =>
              /\ sess'.closed = sess.closed
              /\ sess'.renderer = sess.renderer
              /\ sess'.idle = sess.idle
              /\ sess'.closeEvents = sess.closeEvents
              /\ sess'.log = sess.log
              /\ sess'.writable = sess.writable]_vars
    /\ [](\A f \in DOMAIN sess.flushes :
              (~sess.flushes[f].closedAt /\ sess.flushes[f].writableAt)
                  => sess.flushes[f].path \in {"written", "threw"})

C23_Witness ==
    /\ Len(sess.flushes) = 2
    /\ sess.flushes[1].path = "threw"
    /\ sess.flushes[2].path = "written" /\ sess.flushes[2].cb = "error"
    /\ ~sess.closed
    /\ sess.renderer = <<>>
    /\ sess.closeEvents = 0

WindowChanges(h) == SelectSeq(h.reqs, LAMBDA q : q.req = "window-change")

Forwarded(h) == SelectSeq(WindowChanges(h), LAMBDA q : q.reply = "accept")

\* C24: a window-change request that arrives once the session is
\* established is forwarded to the session's handleResize with the
\* request's cols and rows, in order of arrival, and accepted; one that
\* arrives before is not forwarded.
C24_WindowChangeForwarded ==
    /\ \A k \in DOMAIN hs.reqs :
           hs.reqs[k].req = "window-change" =>
               (hs.reqs[k].reply = "accept" <=> hs.reqs[k].created = "resolved")
    /\ hs.create # "resolved" => Forwarded(hs) = <<>>
    /\ hs.create = "resolved" =>
           /\ Len(sess.resizes) = Len(Forwarded(hs))
           /\ \A j \in DOMAIN sess.resizes :
                  /\ sess.resizes[j].width = Forwarded(hs)[j].cols
                  /\ sess.resizes[j].height = Forwarded(hs)[j].rows

C24_Witness ==
    /\ Len(hs.reqs) = 3
    /\ hs.reqs[1].req = "window-change" /\ hs.reqs[1].reply = "unhandled"
    /\ hs.reqs[2].req = "shell"
    /\ hs.reqs[3].req = "window-change" /\ hs.reqs[3].reply = "accept"
    /\ hs.reqs[3].cols = 120 /\ hs.reqs[3].rows = 40
    /\ sess.pty.width = 120 /\ sess.pty.height = 40

(***************************************************************************)
(* ctx.state: the scratch map of a context.  handleAuth and the shell      *)
(* listener of handleSession build a context for every dispatch; the       *)
(* middlewares of the chain write the key mw1 and read it back, as the     *)
(* ones of middleware.test do.  A dispatch writes its own number, so that  *)
(* a reader can tell whose value it sees.                                  *)
(***************************************************************************)
\* The configured chains: writers and readers in either order, next to
\* each other or with a middleware in between whose await suspends the
\* dispatch.
ScratchChains ==
    {<<"put", "get">>, <<"get", "put">>, <<"put", "get", "get">>,
     <<"put", "slow", "get">>, <<"slow", "get", "put">>,
     <<"get", "put", "slow", "get">>}

\* One map object that every context refers to.
CtxStateShared(d) == 1

\* The map object ctx.state of dispatch d refers to: `state: {}` is
\* evaluated for every context, so it is the dispatch's own.
CtxState(d) == d

\* ctx.state.mw1 = <value>.
MwPut(d) ==
    /\ Running(d)
    /\ OpAt(disp[d]) = "put"
    /\ LET advanced == [disp EXCEPT ![d] = Advance(@)]
       IN disp' = [advanced EXCEPT ![CtxState(d)].state.mw1 = d]
    /\ running' = d
    /\ UNCHANGED <<srv, hs, chain, conns, errors, sess>>

\* ctx.state.mw2 = <what ctx.state.mw1 is>.
MwGet(d) ==
    /\ Running(d)
    /\ OpAt(disp[d]) = "get"
    /\ LET value == disp[CtxState(d)].state.mw1
           advanced == [disp EXCEPT ![d] =
                           [Advance(@) EXCEPT !.seen = Append(@,
                               [at |-> Top(disp[d]).i + 1, value |-> value])]]
       IN disp' = [advanced EXCEPT ![CtxState(d)].state.mw2 = value]
    /\ running' = d
    /\ UNCHANGED <<srv, hs, chain, conns, errors, sess>>

InitScratch ==
    /\ chain \in ScratchChains
    /\ disp = <<>>
    /\ conns = InitConns
    /\ errors = {}
    /\ sess = InitSess
    /\ hs = NewHandleSession("false")
    /\ running = 0
    /\ srv = InitSrv

NextScratch ==
    \/ Connect
    \/ \E c \in 1..NumConns, a \in Attempts : ClientAuth(c, a.username, a.method)
    \/ ShellRequest
    \/ \E d \in 1..(MaxAttempts + MaxSessions) :
           \/ MwPut(d) \/ MwGet(d)
           \/ MwAwait(d) \/ MwCode(d) \/ MwNext(d) \/ MwReturn(d)

SpecScratch == InitScratch /\ [][NextScratch]_vars

\* C29: the scratch map is shared along the chain of one dispatch and of
\* no other: what a middleware reads from ctx.state is the value an
\* earlier middleware of the same dispatch wrote before its next(), and
\* nothing when there is none, whatever earlier or concurrent auth and
\* session dispatches of the server have written to theirs.
C29_ScratchMapPerDispatch ==
    \A d \in DOMAIN disp :
        /\ disp[d].state.mw1 \in {-1, d}
        /\ disp[d].state.mw2 \in {-1, d}
        /\ \A j \in DOMAIN disp[d].seen :
               LET e == disp[d].seen[j]
               IN e.value = IF \E i \in 1..(e.at - 1) : chain[i] = "put"
                            THEN d ELSE -1

C29_Witness ==
    /\ chain = <<"put", "slow", "get">>
    /\ Len(disp) = 2
    /\ disp[1].term = "auth" /\ disp[2].term = "session"
    /\ disp[1].status = "running" /\ disp[1].state.mw1 = 1 /\ disp[1].seen = <<>>
    /\ disp[2].state.mw1 = 2
    /\ disp[2].seen = <<[at |-> 3, value |-> 2]>>

(***************************************************************************)
(* Two connections of one server.  Each call of handleConnection has its   *)
(* own authenticatedUser, each call of handleSession its own ptyInfo and   *)
(* user, and each SSHSession its own fields; hs and sess hold one entry    *)
(* per connection here: the closure of handleSession for the SSH session   *)
(* of the connection, with the number of handler runs on it, and the       *)
(* SSHSession created for it with the user it was given.  What the client  *)
(* of a connection sends carries the number of the connection.             *)
(***************************************************************************)
Peers == {1, 2}

IsolationChains == {<<"devMode">>, <<"reject">>}

\* The attempt the client of connection c makes.
AttemptOf(c) ==
    IF c = 1 THEN [username |-> "alice", method |-> "password"]
             ELSE [username |-> "bob", method |-> "publickey"]

\* The window the client of connection c asks for and resizes to.
PtyOf(c) == <<100 + c, 30 + c>>

ResizeOf(c) == <<120 + c, 40 + c>>

\* One ptyInfo that every call of handleSession uses.
PtyInfoOfServer(c) == 1

\* The ptyInfo the listeners of connection c's SSH session close over:
\* `let ptyInfo` of that call of handleSession.
PtyInfoOf(c) == c

\* handleSession(sshSession, authenticatedUser!, ...) was called for
\* connection c: the 'session' listener of its 'ready' handler ran.
HasSession(c) == conns[c].sessions # <<>>

\* A handler of connection c's SSH session or SSHSession ran.
Ran(h, c) == [h EXCEPT ![c].steps = @ + 1]

\* 'authentication' on connection c.
PeerAuth(c) ==
    /\ Idle
    /\ Cardinality({d \in DOMAIN disp : disp[d].term = "auth"}) < MaxAttempts
    /\ ~conns[c].authed
    /\ \A d \in DOMAIN disp : disp[d].c = c => Decided(disp[d])
    /\ LET r == Settle(Enter(NewDispatch("auth", c, AttemptOf(c).username,
                                         AttemptOf(c).method), 0))
       IN /\ disp' = Append(disp, r)
          /\ running' = Continue(Len(disp) + 1, r, FALSE)
    /\ UNCHANGED <<srv, hs, chain, conns, errors, sess>>

\* 'pty' on connection c's SSH session; a client asks for its pty once,
\* before the shell.
PeerPty(c) ==
    /\ Idle
    /\ HasSession(c)
    /\ Len(hs[c].h.reqs) < MaxRequests
    /\ hs[c].h.ptyInfo = NoPty
    /\ ~HasChannel(hs[c].h)
    /\ hs' = Ran([hs EXCEPT ![PtyInfoOf(c)].h =
                      OnPty(@, "vt100", PtyOf(c)[1], PtyOf(c)[2])], c)
    /\ UNCHANGED <<srv, chain, disp, conns, errors, sess, running>>

\* 'shell' on connection c's SSH session, after the client's pty request.
PeerShell(c) ==
    /\ Idle
    /\ HasSession(c)
    /\ Len(hs[c].h.reqs) < MaxRequests
    /\ hs[c].h.reqs # <<>>
    /\ ~HasChannel(hs[c].h)
    /\ LET h == [hs[c].h EXCEPT !.ptyInfo = hs[PtyInfoOf(c)].h.ptyInfo]
           user == conns[c].sessions[1].user
       IN IF ShellDecision(h) = "reject"
          THEN /\ hs' = Ran([hs EXCEPT ![c].h = Request(@, "shell", 0, 0, "reject")], c)
               /\ UNCHANGED <<srv, disp, running>>
          ELSE LET r == Settle(Enter(NewDispatch("session", c, user.username, "none"), 0))
               IN /\ hs' = Ran([hs EXCEPT ![c].h =
                                    [OnShellAccepted(Request(h, "shell", 0, 0, "accept"))
                                        EXCEPT !.ptyInfo = hs[c].h.ptyInfo],
                                              ![c].user = user], c)
                  /\ disp' = Append(disp, r)
                  /\ running' = Continue(Len(disp) + 1, r, FALSE)
    /\ UNCHANGED <<srv, chain, conns, errors, sess>>

\* SSHSession.create of connection c's shell request settles.
PeerCreate(c, ok) ==
    /\ Idle
    /\ hs[c].h.create = "pending"
    /\ IF ok
       THEN /\ sess' = [sess EXCEPT ![c] = [s |-> NewSession(hs[c].h.finalPty),
                                            user |-> hs[c].user]]
            /\ hs' = Ran([hs EXCEPT ![c].h.create = "resolved",
                                    ![c].h.windowChange = TRUE,
                                    ![c].h.sessionEvents = @ + 1], c)
            /\ UNCHANGED errors
       ELSE /\ errors' = errors \cup {[att |-> 0, err |-> CreateError]}
            /\ hs' = Ran([hs EXCEPT ![c].h.create = "rejected",
                                    ![c].h.stream = "ended",
                                    ![c].h.streamCalls = @ \o <<<<"exit", 1>>, <<"end", 0>>>>], c)
            /\ UNCHANGED sess
    /\ UNCHANGED <<srv, chain, disp, conns, running>>

\* 'window-change' on connection c's SSH session, once the listener of
\* its session is registered.
PeerWindowChange(c) ==
    /\ Idle
    /\ hs[c].h.windowChange
    /\ Len(hs[c].h.reqs) < MaxRequests
    /\ sess' = [sess EXCEPT ![c].s = OnWindowChange(@, ResizeOf(c)[1], ResizeOf(c)[2])]
    /\ hs' = Ran([hs EXCEPT ![c].h = Request(@, "window-change",
                                 ResizeOf(c)[1], ResizeOf(c)[2], "accept")], c)
    /\ UNCHANGED <<srv, chain, disp, conns, errors, running>>

\* The application closes the session of connection c.
PeerClose(c) ==
    /\ Idle
    /\ hs[c].h.create = "resolved"
    /\ ~sess[c].s.closed
    /\ sess' = [sess EXCEPT ![c].s = CloseSession(Entered(@, "close()", Undefined), 0)]
    /\ hs' = Ran(hs, c)
    /\ UNCHANGED <<srv, chain, disp, conns, errors, running>>

InitIsolation ==
    /\ chain \in IsolationChains
    /\ disp = <<>>
    /\ conns = [c \in Peers |-> NewConnection]
    /\ errors = {}
    /\ sess = [c \in Peers |-> [s |-> InitSess, user |-> NoUser]]
    /\ hs = [c \in Peers |-> [h |-> NewHandleSession("unset"), user |-> NoUser,
                               steps |-> 0]]
    /\ running = 0
    /\ srv = InitSrv

NextIsolation ==
    \/ \E c \in Peers :
          \/ PeerAuth(c) \/ TransportReady(c) \/ SessionEvent(c)
          \/ PeerPty(c) \/ PeerShell(c) \/ PeerWindowChange(c) \/ PeerClose(c)
          \/ \E ok \in BOOLEAN : PeerCreate(c, ok)
    \/ \E d \in 1..(MaxAttempts + NumConns + MaxSessions) :
          \/ MwNext(d) \/ MwReturn(d) \/ MwAccept(d) \/ MwReject(d)

SpecIsolation == InitIsolation /\ [][NextIsolation]_vars

\* What the claim protects of connection c: its authenticated user, the
\* pty negotiated on its SSH session, and its SSHSession (PtyInfo, closed
\* flag and the rest) with the user it was given.
Owned(c) == <<conns[c].user, hs[c].h.ptyInfo, sess[c]>>

\* C30: under every interleaving of two connections, a step changes what
\* a connection owns only if it is a step of that connection (one of its
\* dispatches advanced or one of its handlers ran) and of no other; the
\* authenticated user of a connection is the one its accepted attempt
\* named, and its session is given that user.
C30_ConnectionsIsolated ==
    /\ [][\A c \in Peers :
              Owned(c)' # Owned(c) =>
                  LET Acted(p) ==
                          \/ hs'[p].steps # hs[p].steps
                          \/ \E d \in DOMAIN disp' :
                                 /\ disp'[d].c = p
                                 /\ (d \notin DOMAIN disp \/ disp'[d] # disp[d])
                  IN Acted(c) /\ \A p \in Peers \ {c} : ~Acted(p)]_vars
    /\ [](\A c \in Peers :
              /\ conns[c].user # NoUser =>
                     /\ conns[c].user.username = AttemptOf(c).username
                     /\ \E d \in DOMAIN disp :
                            /\ disp[d].c = c /\ disp[d].term = "auth"
                            /\ disp[d].accepted
                            /\ conns[c].user = UserInfo(disp[d])
              /\ hs[c].h.ptyInfo # NoPty =>
                     /\ hs[c].h.ptyInfo.width = PtyOf(c)[1]
                     /\ hs[c].h.ptyInfo.height = PtyOf(c)[2]
              /\ sess[c].s # InitSess =>
                     /\ sess[c].user = conns[c].user
                     /\ sess[c].user.username = AttemptOf(c).username
                     /\ sess[c].s.pty.width \in {PtyOf(c)[1], ResizeOf(c)[1]}
                     /\ sess[c].s.pty.height \in {PtyOf(c)[2], ResizeOf(c)[2]})

C30_Witness ==
    /\ conns[1].user.username = "alice" /\ conns[2].user.username = "bob"
    /\ sess[1].s # InitSess /\ sess[2].s # InitSess
    /\ sess[1].user.username = "alice" /\ sess[2].user.username = "bob"
    /\ sess[1].s.closed /\ ~sess[2].s.closed
    /\ sess[1].s.pty.width = 101
    /\ sess[2].s.pty.width = 122 /\ sess[2].s.pty.height = 42

\* The one dispatch of the harness has settled.
Settled == Len(disp) = 1 /\ disp[1].status # "running"

\* The middlewares of the chain other than logging.
Deciders == {k \in DOMAIN chain : chain[k] # "logging"}

C26_CaptureRecordsAccept ==
    (/\ chain = <<"logging", "devMode">>
     /\ Settled
     /\ disp[1].phase = "auth" /\ ~disp[1].hasAccept) =>
        /\ Len(disp[1].reports) = 1
        /\ disp[1].reports[1].username = disp[1].username
        /\ disp[1].reports[1].success

\* C27: in the auth phase with a client key and both callbacks, publicKey
\* calls ctx.accept exactly when some parsed authorized key has the type
\* of the client key's algorithm and the base64 text of its data, and
\* ctx.reject(["publickey"]) otherwise; it decides once and then calls
\* next once, so the terminal continuation runs once without a fault.
C27_PublicKeyDecides ==
    \A p \in DOMAIN chain :
        (/\ Deciders = {p} /\ chain[p] \in PublicKeyKinds
         /\ Settled
         /\ disp[1].phase = "auth" /\ disp[1].clientKey # NoKey
         /\ disp[1].hasAccept /\ disp[1].hasReject) =>
            LET r == disp[1]
                keys == AuthorizedKeys(chain[p])
                listed == \E k \in DOMAIN keys :
                             /\ Len(keys[k]) >= 2
                             /\ keys[k][1] = r.clientKey.algo
                             /\ keys[k][2] = Base64(r.clientKey.data)
            IN /\ Len(r.calls) = 1
               /\ r.calls[1].op = (IF listed THEN "accept" ELSE "reject")
               /\ r.calls[1].methods = (IF listed THEN "none" ELSE "publickey")
               /\ r.status = "resolved"
               /\ r.finals = 1 /\ r.faults = 0 /\ r.index = Len(chain)

C27_Witness ==
    /\ chain = <<"publicKey:mixed">>
    /\ Settled
    /\ disp[1].phase = "auth"
    /\ disp[1].clientKey = [algo |-> "ssh-ed25519", data |-> <<0, 0, 63, 6>>]
    /\ Len(disp[1].calls) = 1 /\ disp[1].calls[1].op = "accept"
    /\ disp[1].finals = 1

\* C28: publicKey in the session phase, or in the auth phase without a
\* client key, calls neither accept nor reject and calls next once;
\* devMode calls accept exactly in the auth phase when the context has an
\* accept callback, never in the session phase, and calls next once.
C28_PassThrough ==
    \A p \in DOMAIN chain :
        (Deciders = {p} /\ Settled) =>
            LET r == disp[1]
            IN /\ (chain[p] \in PublicKeyKinds
                    /\ (r.phase = "session" \/ r.clientKey = NoKey)) =>
                      /\ r.calls = <<>>
                      /\ r.status = "resolved"
                      /\ r.finals = 1 /\ r.faults = 0 /\ r.index = Len(chain)
               /\ chain[p] = "devMode" =>
                      /\ r.phase = "session" => r.calls = <<>>
                      /\ (r.phase = "auth" /\ r.hasAccept) =>
                             Len(r.calls) = 1 /\ r.calls[1].op = "accept"
                      /\ ~r.hasAccept => r.calls = <<>>
                      /\ r.status = "resolved"
                      /\ r.finals = 1 /\ r.faults = 0 /\ r.index = Len(chain)

C28_Witness ==
    /\ chain = <<"devMode">>
    /\ Settled
    /\ disp[1].phase = "session" /\ disp[1].hasAccept
    /\ disp[1].calls = <<>>
    /\ disp[1].finals = 1

(***************************************************************************)
(* SSHServer.listen and SSHServer.close.                                   *)
(*                                                                         *)
(* The transport server (ssh2's Server over a net.Server) is modelled by   *)
(* its contract: listen(port, host, callback) returns at once and the      *)
(* binding completes later, when the callback runs, or fails, when 'error' *)
(* is emitted.  close() on a transport that is still binding stops it      *)
(* when its socket exists already; when the host is still being resolved   *)
(* the binding goes on and completes after the close.                      *)
(*                                                                         *)
(* server is the number of the transport this.server refers to, 0 for      *)
(* null; calls are the listen() and close() calls with their outcome.      *)
(***************************************************************************)
BindError == "EADDRINUSE"

NewServer ==
    [server |-> 0, listening |-> FALSE, transports |-> <<>>,
     events |-> <<>>, calls |-> <<>>]

\* listen(): nothing when the flag is set, else a new transport server
\* that replaces this.server and starts to bind.
OnListen(s) ==
    IF s.listening
    THEN [s EXCEPT !.calls = Append(@, [op |-> "listen", result |-> "resolved",
                                        transport |-> 0, eventsAt |-> Len(s.events)])]
    ELSE LET t == Len(s.transports) + 1
         IN [s EXCEPT !.transports = Append(@, "binding"),
                      !.server = t,
                      !.calls = Append(@, [op |-> "listen", result |-> "pending",
                                           transport |-> t, eventsAt |-> 0])]

\* The promise of the listen() call that created transport t settles.
SettleListen(s, t, result) ==
    [s EXCEPT !.calls = [k \in DOMAIN @ |->
        IF @[k].op = "listen" /\ @[k].transport = t /\ @[k].result = "pending"
        THEN [@[k] EXCEPT !.result = result, !.eventsAt = Len(s.events)]
        ELSE @[k]]]

\* The callback given to the transport's listen: set the flag, emit
\* 'listening', resolve.
OnBound(s, t) ==
    SettleListen([s EXCEPT !.listening = TRUE,
                           !.events = Append(@, "listening"),
                           !.transports[t] = "bound"], t, "resolved")

\* The 'error' listener of the transport: emit 'error', and reject when
\* the flag is not set.
OnTransportError(s, t) ==
    LET s1 == [s EXCEPT !.events = Append(@, "error"), !.transports[t] = "failed"]
    IN IF ~s.listening THEN SettleListen(s1, t, "rejected") ELSE s1

\* A close() that leaves the flag as it is.
OnCloseKeepsFlag(s) ==
    IF s.server # 0
    THEN [s EXCEPT !.transports[s.server] =
                       IF @ = "binding" THEN "closedBinding" ELSE "closed",
                   !.server = 0,
                   !.events = Append(@, "close"),
                   !.calls = Append(@, [op |-> "close", result |-> "done",
                                        transport |-> s.server,
                                        eventsAt |-> Len(s.events) + 1])]
    ELSE [s EXCEPT !.calls = Append(@, [op |-> "close", result |-> "done",
                                        transport |-> 0,
                                        eventsAt |-> Len(s.events)])]

\* close(): when this.server is set, close it, forget it, clear the flag
\* and emit 'close'.
OnClose(s) ==
    IF s.server # 0
    THEN [s EXCEPT !.transports[s.server] =
                       IF @ = "binding" THEN "closedBinding" ELSE "closed",
                   !.server = 0,
                   !.listening = FALSE,
                   !.events = Append(@, "close"),
                   !.calls = Append(@, [op |-> "close", result |-> "done",
                                        transport |-> s.server,
                                        eventsAt |-> Len(s.events) + 1])]
    ELSE [s EXCEPT !.calls = Append(@, [op |-> "close", result |-> "done",
                                        transport |-> 0,
                                        eventsAt |-> Len(s.events)])]

\* The application calls server.listen().
Listen ==
    /\ Len(srv.calls) < MaxServerCalls
    /\ srv' = OnListen(srv)
    /\ UNCHANGED <<chain, disp, conns, errors, sess, hs, running>>

\* The application calls server.close().
ServerClose ==
    /\ Len(srv.calls) < MaxServerCalls
    /\ srv' = OnClose(srv)
    /\ UNCHANGED <<chain, disp, conns, errors, sess, hs, running>>

\* The binding of transport t completes: its listen callback runs.
BindComplete(t) ==
    /\ t \in DOMAIN srv.transports
    /\ srv.transports[t] \in {"binding", "closedBinding"}
    /\ srv' = OnBound(srv, t)
    /\ UNCHANGED <<chain, disp, conns, errors, sess, hs, running>>

\* The binding of transport t fails: the transport emits 'error'.
BindFail(t) ==
    /\ t \in DOMAIN srv.transports
    /\ srv.transports[t] = "binding"
    /\ srv' = OnTransportError(srv, t)
    /\ errors' = errors \cup {[att |-> 0, err |-> BindError]}
    /\ UNCHANGED <<chain, disp, conns, sess, hs, running>>

\* Transport t was closed with its socket open: the binding is given up
\* and the callback never runs.
BindCancel(t) ==
    /\ t \in DOMAIN srv.transports
    /\ srv.transports[t] = "closedBinding"
    /\ srv' = [srv EXCEPT !.transports[t] = "closed"]
    /\ UNCHANGED <<chain, disp, conns, errors, sess, hs, running>>

InitServer ==
    /\ chain = <<>>
    /\ disp = <<>>
    /\ conns = InitConns
    /\ errors = {}
    /\ sess = InitSess
    /\ hs = InitHs
    /\ running = 0
    /\ srv = NewServer

NextServer ==
    \/ Listen
    \/ ServerClose
    \/ \E t \in 1..MaxServerCalls : BindComplete(t) \/ BindFail(t) \/ BindCancel(t)

SpecServer == InitServer /\ [][NextServer]_vars

\* The events of a kind among the first n the server emitted.
EventsUpTo(s, kind, n) == {j \in 1..n : s.events[j] = kind}

\* C32: a listen() promise resolves only after 'listening' was emitted
\* (the event of its own binding, or an earlier one when the server was
\* listening already); close() on a server that holds a transport closes
\* that transport, forgets it, clears the listening flag and emits 'close'
\* once; close() on a server that holds none changes and emits nothing.
C32_LifecycleEvents ==
    /\ [](\A k \in DOMAIN srv.calls :
              (srv.calls[k].op = "listen" /\ srv.calls[k].result = "resolved") =>
                  /\ EventsUpTo(srv, "listening", srv.calls[k].eventsAt) # {}
                  /\ srv.calls[k].transport # 0 =>
                         srv.events[srv.calls[k].eventsAt] = "listening")
    /\ [][(/\ Len(srv'.calls) = Len(srv.calls) + 1
            /\ srv'.calls[Len(srv'.calls)].op = "close") =>
              IF srv.server # 0
              THEN /\ srv'.events = Append(srv.events, "close")
                   /\ srv'.server = 0
                   /\ ~srv'.listening
                   /\ srv'.transports[srv.server] \in {"closed", "closedBinding"}
                   /\ \A t \in DOMAIN srv.transports :
                          t # srv.server => srv'.transports[t] = srv.transports[t]
              ELSE /\ srv'.events = srv.events
                   /\ srv'.transports = srv.transports
                   /\ srv'.listening = srv.listening
                   /\ srv'.server = 0]_vars

C32_Witness ==
    /\ srv.events = <<"listening", "close">>
    /\ Len(srv.calls) = 3
    /\ srv.calls[1].op = "listen" /\ srv.calls[1].result = "resolved"
    /\ srv.calls[2].op = "close" /\ srv.calls[2].transport = 1
    /\ srv.calls[3].op = "close" /\ srv.calls[3].transport = 0
    /\ srv.transports = <<"closed">>
    /\ ~srv.listening

\* C39: until close() is called, whatever listen() calls are made, at most
\* one transport server is created and 'listening' is emitted at most once.
C39_ListenIdempotent ==
    (\A k \in DOMAIN srv.calls : srv.calls[k].op # "close") =>
        /\ Len(srv.transports) <= 1
        /\ Cardinality(EventsUpTo(srv, "listening", Len(srv.events))) <= 1

\* C40: the listening flag is set only while the server holds a transport
\* server, and after close() no 'listening' event is emitted until
\* listen() is called again.
C40_ListeningOnlyWithTransport ==
    /\ srv.listening => srv.server # 0
    /\ \A j \in DOMAIN srv.events :
           srv.events[j] = "listening" =>
               \A k \in DOMAIN srv.calls :
                   (srv.calls[k].op = "close" /\ srv.calls[k].eventsAt < j) =>
                       \E n \in (k + 1)..Len(srv.calls) : srv.calls[n].op = "listen"

(***************************************************************************)
(* The server's auth dispatches with logging as the outermost middleware.  *)
(***************************************************************************)
LoggedChains ==
    {<<"logging">> \o inner : inner \in Chains({"devMode", "reject", "throw"}, 1)}

InitLogged ==
    /\ chain \in LoggedChains
    /\ disp = <<>>
    /\ conns = InitConns
    /\ errors = {}
    /\ sess = InitSess
    /\ hs = InitHs
    /\ running = 0
    /\ srv = InitSrv

NextLogged ==
    \/ Connect
    \/ \E c \in 1..NumConns :
          \/ \E a \in Attempts : ClientAuth(c, a.username, a.method)
          \/ TransportReady(c)
          \/ SessionEvent(c)
    \/ \E d \in 1..MaxAttempts :
          \/ MwTrack(d) \/ MwReport(d)
          \/ MwNext(d) \/ MwReturn(d) \/ MwThrow(d)
          \/ MwAccept(d) \/ MwReject(d)
          \/ AuthCatch(d)

SpecLogged == InitLogged /\ [][NextLogged]_vars

\* The transport's reject decided the attempt of dispatch r, and the
\* dispatch and its catch handler are done.
EndedRejected(r) ==
    /\ r.term = "auth"
    /\ r.calls # <<>> /\ r.calls[1].op = "reject"
    /\ \/ r.status = "resolved"
       \/ r.status = "rejected" /\ r.caught

\* C33: with logging outermost, every authentication attempt that ends
\* with a reject of the transport, the default reject of the terminal
\* continuation included, has had onAuthAttempt(ctx, false) called
\* exactly once.
C33_RejectsAreReported ==
    \A d \in DOMAIN disp :
        EndedRejected(disp[d]) =>
            /\ Len(disp[d].reports) = 1
            /\ ~disp[d].reports[1].success
            /\ disp[d].reports[1].username = disp[d].username

\* C34: once the renderer has been destroyed the session invokes nothing
\* on it: no renderer.resize comes after renderer.destroy in the trace, no
\* channel data is injected into a closed session, and no 'resize' event
\* is emitted after the 'close' event.
C34_NoUseAfterDestroy ==
    /\ \A i \in DOMAIN sess.log : \A j \in DOMAIN sess.log :
           (i < j /\ sess.log[i][1] = "renderer.destroy") =>
               sess.log[j][1] # "renderer.resize"
    /\ \A i \in DOMAIN sess.log : \A j \in DOMAIN sess.log :
           (i < j /\ sess.log[i][1] = "emit.close") =>
               sess.log[j][1] # "emit.resize"
    /\ \A k \in DOMAIN sess.inputs :
           sess.inputs[k].injected => ~sess.inputs[k].closedAt

\* The number of times the session invoked the renderer operation op.
RendererCalls(s, op) ==
    Cardinality({i \in DOMAIN s.renderer : s.renderer[i] = op})

\* C35: for any sequence of close() calls and channel error and close
\* events on one session, renderer.stop() is invoked at most once and
\* renderer.destroy() at most once; the first teardown call is the one
\* that stops the renderer, and destroy never precedes stop.
C35_StopAndDestroyOnce ==
    /\ RendererCalls(sess, "stop") <= 1
    /\ RendererCalls(sess, "destroy") <= 1
    /\ RendererCalls(sess, "stop") = (IF sess.teardowns >= 1 THEN 1 ELSE 0)
    /\ RendererCalls(sess, "destroy") <= RendererCalls(sess, "stop")

C35_Witness ==
    /\ sess.calls = <<"on.error", "on.close">>
    /\ sess.idle = "settled"
    /\ sess.renderer = <<"stop", "destroy">>

(***************************************************************************)
(* The flush handler under the renderer's backpressure contract: the       *)
(* renderer keeps its buffer (writeReady is false) until done() has been   *)
(* called, and issues no flush before that.                                *)
(***************************************************************************)
\* The renderer calls the flush handler once it is ready to write: every
\* flush it issued has been acknowledged.
FlushWhenReady(buf, outcome) ==
    /\ \A f \in DOMAIN sess.flushes : sess.flushes[f].done >= 1
    /\ Flush(buf, outcome)

NextBackpressure ==
    \/ \E buf \in Bufs, outcome \in WriteOutcomes : FlushWhenReady(buf, outcome)
    \/ \E f \in 1..MaxFlush, err \in BOOLEAN : WriteCallback(f, err)
    \/ \E arg \in ExitArgs : Close(arg)
    \/ \E w \in BOOLEAN : StreamError(w)
    \/ StreamClose
    \/ ChannelUnwritable
    \/ \E outcome \in IdleOutcomes : IdleSettle(outcome)

SpecBackpressure == InitSession /\ [][NextBackpressure]_vars

\* The buffers the channel was given to write, in the order it got them.
WriteSeq(s) == SelectSeq(s.channel, LAMBDA e : e[1] = "write")

\* The flushes whose buffer the handler passed to channel.write.
WrittenSeq(s) == SelectSeq(s.flushes, LAMBDA f : f.path = "written")

\* The writes the channel took and has not completed yet.
Outstanding(s) == {f \in DOMAIN s.flushes : s.flushes[f].cb = "pending"}

\* C36: when the renderer issues no flush before done was called, each
\* flush causes at most one channel.write, of that flush's bytes, and the
\* writes reach the channel in flush order; at most one write is
\* outstanding at any time; no write is issued once the session is closed
\* or after the channel was ended.
C36_OneWritePerFlushInOrder ==
    /\ Len(WriteSeq(sess)) = Len(WrittenSeq(sess))
    /\ \A i \in DOMAIN WriteSeq(sess) :
           WriteSeq(sess)[i][2] = WrittenSeq(sess)[i].buf
    /\ Cardinality(Outstanding(sess)) <= 1
    /\ \A f \in DOMAIN sess.flushes :
           sess.flushes[f].closedAt => sess.flushes[f].path = "skipped"
    /\ \A i \in DOMAIN sess.channel : \A j \in DOMAIN sess.channel :
           (i < j /\ sess.channel[i][1] = "end") => sess.channel[j][1] # "write"

\* Two flushes with different bytes were written one after the other, the
\* second still outstanding, and a close() followed.
C36_Witness ==
    /\ Len(sess.flushes) = 2
    /\ WriteSeq(sess) = <<<<"write", "b2">>, <<"write", "b1">>>>
    /\ sess.flushes[1].cb = "ok"
    /\ sess.flushes[2].cb = "pending"
    /\ sess.closed

\* C37: when SSHSession.create fails for an accepted shell request the
\* server emits 'error', the shell channel gets exit(1) then end(), no
\* 'session' event is emitted, no session exists and no window-change
\* listener is registered (later window changes go unhandled); when it
\* succeeds exactly one 'session' event is emitted and the channel is left
\* open; before create settles neither has happened.
C37_CreateFailureEndsChannel ==
    /\ hs.create = "rejected" =>
           /\ [att |-> 0, err |-> CreateError] \in errors
           /\ hs.stream = "ended"
           /\ hs.streamCalls = <<<<"exit", 1>>, <<"end", 0>>>>
           /\ hs.sessionEvents = 0
           /\ ~hs.windowChange
           /\ sess = InitSess
           /\ \A i \in DOMAIN hs.reqs :
                  hs.reqs[i].req = "window-change" => hs.reqs[i].reply = "unhandled"
    /\ hs.create = "resolved" =>
           /\ hs.sessionEvents = 1
           /\ hs.windowChange
           /\ hs.stream # "ended"
           /\ [att |-> 0, err |-> CreateError] \notin errors
    /\ hs.create \in {"none", "pending"} =>
           /\ hs.sessionEvents = 0
           /\ ~hs.windowChange
           /\ [att |-> 0, err |-> CreateError] \notin errors

\* Create failed for an accepted shell and the client then reported a new
\* window size.
C37_Witness ==
    /\ hs.create = "rejected"
    /\ [att |-> 0, err |-> CreateError] \in errors
    /\ hs.streamCalls = <<<<"exit", 1>>, <<"end", 0>>>>
    /\ Len(hs.reqs) >= 2
    /\ hs.reqs[Len(hs.reqs)].req = "window-change"
    /\ \E i \in DOMAIN hs.reqs : hs.reqs[i].req = "shell" /\ hs.reqs[i].reply = "accept"

\* The first middleware that calls next() twice, when the chain reaches it.
FirstTwice ==
    CHOOSE k \in 1..Len(chain) :
        chain[k] = "twice" /\ \A j \in 1..(k - 1) : Onion(chain[j])

\* C38: the next-index guard is per dispatch.  Dispatches of the same
\* composed chain, one after the other or interleaved at their awaits,
\* never fault with "next() called multiple times" unless the chain reaches
\* a middleware that calls next() twice, and then only in a dispatch that
\* itself ran the chain up to that middleware; a dispatch's index is the
\* deepest position that dispatch itself entered; every dispatch that
\* resolves has observed the same order, the full onion order when every
\* middleware awaits next() once.
C38_GuardPerDispatch ==
    /\ \A d \in DOMAIN disp :
           /\ ~ReachesTwice =>
                  /\ disp[d].faults = 0
                  /\ disp[d].err # NextTwiceError
           /\ disp[d].faults > 0 =>
                  /\ disp[d].faults = 1
                  /\ IsPrefix(Befores(0, FirstTwice - 2), disp[d].order)
           /\ AllWrap =>
                  /\ disp[d].index + 1 =
                         Cardinality({i \in DOMAIN disp[d].order :
                                          disp[d].order[i][1] \in {"before", "final"}})
                         + Cardinality({k \in DOMAIN disp[d].stack :
                                            disp[d].stack[k].pc <= 2
                                            /\ OpAt([disp[d] EXCEPT !.stack = SubSeq(@, 1, k)])
                                                   \in {"await", "before"}})
                  /\ disp[d].status = "resolved" =>
                         disp[d].order = OnionOrder(Len(chain))
    /\ \A d \in DOMAIN disp : \A e \in DOMAIN disp :
           (disp[d].status = "resolved" /\ disp[e].status = "resolved") =>
               /\ disp[d].order = disp[e].order
               /\ disp[d].finals = disp[e].finals

\* Two dispatches of one chain are in flight at the same time, the first
\* suspended deeper in the chain than the second.
C38_Witness ==
    /\ chain = <<"slow", "slow">>
    /\ Len(disp) = 2
    /\ disp[1].status = "running" /\ disp[1].index = 1
    /\ disp[2].status = "running" /\ disp[2].index = 0
    /\ disp[2].order = <<<<"before", 0>>>>

\* The logging middlewares of the chain.
Loggings == {k \in DOMAIN chain : chain[k] = "logging"}

\* C31: in the session phase each logging middleware calls onConnect once,
\* before its next(), and registers one 'close' listener on the
\* connection; onDisconnect is called once per listener each time the
\* connection emits 'close' afterwards and never without an emission; in
\* the auth phase neither callback is called and nothing is registered.
C31_ConnectAndDisconnect ==
    Len(disp) = 1 =>
        LET r == disp[1]
        IN /\ r.phase = "auth" =>
                  r.connects = <<>> /\ r.closeListeners = 0 /\ r.disconnects = <<>>
           /\ r.phase = "session" =>
                  /\ r.closeListeners = Len(r.connects)
                  /\ \A j \in DOMAIN r.connects :
                         /\ r.connects[j].by \in Loggings
                         /\ r.connects[j].index = r.connects[j].by - 1
                         /\ r.connects[j].finals = 0
                         /\ \A i \in DOMAIN r.connects :
                                r.connects[i].by = r.connects[j].by => i = j
                  /\ r.status = "resolved" =>
                         {r.connects[j].by : j \in DOMAIN r.connects} = Loggings
                  /\ Len(r.disconnects) = r.closeEmits * r.closeListeners
                  /\ \A e \in 1..r.closeEmits :
                         Cardinality({j \in DOMAIN r.disconnects : r.disconnects[j] = e})
                             = r.closeListeners

C31_Witness ==
    /\ chain = <<"logging", "devMode">>
    /\ Settled
    /\ disp[1].phase = "session"
    /\ Len(disp[1].connects) = 1
    /\ disp[1].closeListeners = 1
    /\ disp[1].closeEmits = 2
    /\ disp[1].disconnects = <<1, 2>>

====
